---- MODULE Spec2Model ----
(***************************************************************************)
(* EncryptedCardGameV2 (src/unnamed/part_000, second listing, lines        *)
(* 255-564): the multi-game registry, the lobby/session life cycle and the *)
(* battle resolution of the confidential card game contract.               *)
(*                                                                         *)
(* A transaction runs to completion or reverts as a whole, so one call is  *)
(* one step.  A reverted call leaves the storage as it was; its reason is  *)
(* given by the ...Error operators, which follow the order of the          *)
(* modifiers and require statements of the source.                         *)
(*                                                                         *)
(* A confidential value (euint8) is modelled by its plaintext together     *)
(* with the set of holders that were granted read access to the handle.    *)
(*                                                                         *)
(* Two more contracts of the same file are modelled further down: the      *)
(* single-game EncryptedCardGame (lines 572-932), with its own storage,    *)
(* and the first listing of EncryptedCardGameV2 (lines 7-247), which       *)
(* differs from the second in createGame, in the indexing of the cards and *)
(* in its views.                                                           *)
(***************************************************************************)
EXTENDS Integers, Sequences, FiniteSets, TLC

(***************************************************************************)
(* Bounds of the model.                                                    *)
(***************************************************************************)
MaxGames == 2
NumAddr == 3
RegistryLookAhead == 0
GameLookAhead == 1
MaxCardIndex == 2

(***************************************************************************)
(* Constants of the program.                                               *)
(***************************************************************************)
DeckSize == 6
NumPlayers == 2
InitialHealth == 2
Uint8Max == 255

ZeroAddress == 0
Addresses == 1..NumAddr
ThisContract == NumAddr + 1

\* enum GameState { Waiting, Playing, Finished }
Waiting == "Waiting"
Playing == "Playing"
Finished == "Finished"

\* Ids a caller may name: the ids that can exist within the bound, and one more.
GameIds == 0..MaxGames
PlayerIdx == 0..(NumPlayers - 1)
CardIdx == 0..(DeckSize - 1)

(***************************************************************************)
(* The FHE library, on plaintexts.                                         *)
(***************************************************************************)
FHE_eq(a, b) == a = b
FHE_or(a, b) == a \/ b
FHE_and(a, b) == a /\ b
FHE_select(c, a, b) == IF c THEN a ELSE b
FHE_asEuint8(v) == v % (Uint8Max + 1)

\* An euint8 that was never assigned: the zero handle, readable by nobody.
NoHandle == [val |-> 0, acl |-> {}]

\* struct Card, before any assignment.
EmptyCard == [cardType |-> NoHandle, health |-> 0, isAlive |-> FALSE]

\* struct Game, before any assignment (the value of games[id] for a fresh id).
EmptyGame ==
    [state |-> Waiting,
     players |-> [p \in PlayerIdx |-> ZeroAddress],
     playersJoined |-> 0,
     currentRound |-> 0,
     cards |-> [p \in PlayerIdx |-> [i \in CardIdx |-> EmptyCard]],
     aliveCount |-> [p \in PlayerIdx |-> 0],
     currentPlayedCards |-> [p \in PlayerIdx |-> 0],
     hasPlayedCard |-> [p \in PlayerIdx |-> FALSE],
     winner |-> ZeroAddress]

VARIABLES nextGameId, games, playerToGame

vars == <<nextGameId, games, playerToGame>>

(***************************************************************************)
(* Storage of EncryptedCardGame, the single-game contract with confidential*)
(* health and alive flags (lines 572-932).  It is deployed next to the     *)
(* registry; neither contract calls the other.                             *)
(***************************************************************************)
VARIABLES gameState, players, playersJoined, currentRound,
          currentPlayedCards, hasPlayedCard, battleResults

ecgVars == <<gameState, players, playersJoined, currentRound,
             currentPlayedCards, hasPlayedCard, battleResults>>

allVars == <<vars, ecgVars>>

(***************************************************************************)
(* The events of EncryptedCardGameV2 (lines 284-288) and the log of the    *)
(* events emitted so far, kept per game: eventLog[g] holds, in order of    *)
(* emission, the events whose indexed gameId is g.  An event is kept with  *)
(* its name and gameId, PlayerJoined also with its playerIndex; the        *)
(* address, card and winner arguments are not kept.                        *)
(***************************************************************************)
VARIABLE eventLog

GameCreated(gameId) == <<"GameCreated", gameId>>

PlayerJoined(gameId, playerIndex) == <<"PlayerJoined", gameId, playerIndex>>

GameStarted(gameId) == <<"GameStarted", gameId>>

CardPlayed(gameId) == <<"CardPlayed", gameId>>

GameEnded(gameId) == <<"GameEnded", gameId>>

\* euint8[2] battleResults: the length of the array.
BattleResultsLength == 2

\* A handle with its plaintext and the holders granted read access.
Handle(v, readers) == [val |-> v, acl |-> readers]

\* An ebool that was never assigned.
NoBoolHandle == [val |-> FALSE, acl |-> {}]

\* struct Player, before any assignment.
EmptyPlayer ==
    [playerAddress |-> ZeroAddress,
     cards |-> [i \in CardIdx |->
                  [cardType |-> NoHandle, health |-> NoHandle,
                   isAlive |-> NoBoolHandle]],
     aliveCount |-> NoHandle,
     hasJoined |-> FALSE]

\* The storage after the constructor of EncryptedCardGame.
constructor ==
    /\ gameState = Waiting
    /\ playersJoined = 0
    /\ currentRound = 0
    /\ players = [p \in PlayerIdx |-> EmptyPlayer]
    /\ currentPlayedCards = [p \in PlayerIdx |-> NoHandle]
    /\ hasPlayedCard = [p \in PlayerIdx |-> FALSE]
    /\ battleResults = [r \in 0..(BattleResultsLength - 1) |-> NoHandle]

Init ==
    /\ nextGameId = 0
    /\ games = [g \in GameIds |-> EmptyGame]
    /\ playerToGame = [a \in Addresses |-> 0]
    /\ eventLog = [g \in GameIds |-> <<>>]
    /\ constructor

(***************************************************************************)
(* Modifiers.                                                              *)
(***************************************************************************)
\* gameExists with <= for <: the id not yet allocated passes.
gameExists_Inclusive(gameId) == gameId <= nextGameId

gameExists(gameId) == gameId < nextGameId

\* onlyGamePlayer satisfied by every sender.
onlyGamePlayer_AnySender(sender, gameId) ==
    sender # ZeroAddress

onlyGamePlayer(sender, gameId) ==
    sender = games[gameId].players[0] \/ sender = games[gameId].players[1]

onlyInGameState(gameId, state) == games[gameId].state = state

(***************************************************************************)
(* createGame                                                              *)
(***************************************************************************)
createGameError(sender) ==
    IF ~(\/ playerToGame[sender] = 0
         \/ games[playerToGame[sender]].state = Finished)
    THEN "Already in a game"
    ELSE "ok"

\* createGame with the id one too low: the id of the game created last.
createGame_RecyclesId(sender) ==
    IF createGameError(sender) = "ok"
    THEN LET gameId == IF nextGameId = 0 THEN 0 ELSE nextGameId - 1
         IN  /\ nextGameId < MaxGames
             /\ nextGameId' = nextGameId + 1
             /\ games' = [games EXCEPT ![gameId].state = Waiting,
                                       ![gameId].playersJoined = 0,
                                       ![gameId].currentRound = 0]
             /\ UNCHANGED playerToGame
    ELSE UNCHANGED vars

\* createGame with newGame bound to games[0] whatever the id allocated.
createGame_WritesGameZero(sender) ==
    IF createGameError(sender) = "ok"
    THEN /\ nextGameId < MaxGames
         /\ nextGameId' = nextGameId + 1
         /\ games' = [games EXCEPT ![0].state = Waiting,
                                   ![0].playersJoined = 0,
                                   ![0].currentRound = 0]
         /\ UNCHANGED playerToGame
    ELSE UNCHANGED vars

createGame(sender) ==
    IF createGameError(sender) = "ok"
    THEN /\ nextGameId < MaxGames
         /\ nextGameId' = nextGameId + 1
         /\ games' = [games EXCEPT ![nextGameId].state = Waiting,
                                   ![nextGameId].playersJoined = 0,
                                   ![nextGameId].currentRound = 0]
         /\ UNCHANGED playerToGame
    ELSE UNCHANGED vars

(***************************************************************************)
(* joinGame                                                                *)
(***************************************************************************)
\* validatedCardType without the comparison with 2: two valid types only.
validatedCardType_TwoTypes(cardType) ==
    LET validType1 == FHE_eq(cardType, 0)
        validType2 == FHE_eq(cardType, 1)
        isValidType == FHE_or(validType1, validType2)
    IN  FHE_select(isValidType, cardType, FHE_asEuint8(0))

\* Lines 402-411: the membership test in {0,1,2} and the oblivious default.
validatedCardType(cardType) ==
    LET validType1 == FHE_eq(cardType, 0)
        validType2 == FHE_eq(cardType, 1)
        validType3 == FHE_eq(cardType, 2)
        isValidType == FHE_or(FHE_or(validType1, validType2), validType3)
    IN  FHE_select(isValidType, cardType, FHE_asEuint8(0))

\* newCard with the type readable by every address.
newCard_PublicType(cardType, sender) ==
    [cardType |-> [val |-> validatedCardType(cardType),
                   acl |-> {ThisContract} \cup Addresses],
     health |-> InitialHealth,
     isAlive |-> TRUE]

\* Lines 410-420: the stored card and the access granted on its type.
newCard(cardType, sender) ==
    [cardType |-> [val |-> validatedCardType(cardType),
                   acl |-> {ThisContract, sender}],
     health |-> InitialHealth,
     isAlive |-> TRUE]

\* joinGameError with the test of the free slot ahead of the test of the state.
joinGameError_FullFirst(sender, gameId, proofOk) ==
    IF ~gameExists(gameId) THEN "Game does not exist"
    ELSE IF games[gameId].playersJoined >= 2 THEN "Game is full"
    ELSE IF ~onlyInGameState(gameId, Waiting) THEN "Invalid game state"
    ELSE IF \/ games[gameId].players[0] = sender
            \/ games[gameId].players[1] = sender
         THEN "Already joined this game"
    ELSE IF /\ playerToGame[sender] # 0
            /\ games[playerToGame[sender]].state # Finished
         THEN "Already in another game"
    ELSE IF ~proofOk THEN "Invalid proof"
    ELSE "ok"

\* joinGameError without the test of the caller against the two slots.
joinGameError_NoAlreadyJoined(sender, gameId, proofOk) ==
    IF ~gameExists(gameId) THEN "Game does not exist"
    ELSE IF ~onlyInGameState(gameId, Waiting) THEN "Invalid game state"
    ELSE IF games[gameId].playersJoined >= 2 THEN "Game is full"
    ELSE IF /\ playerToGame[sender] # 0
            /\ games[playerToGame[sender]].state # Finished
         THEN "Already in another game"
    ELSE IF ~proofOk THEN "Invalid proof"
    ELSE "ok"

\* The reason joinGame reverts with, in the order the source tests; "ok" if none.
\* proofOk: whether FHE.fromExternal accepts the input proof.
joinGameError(sender, gameId, proofOk) ==
    IF ~gameExists(gameId) THEN "Game does not exist"
    ELSE IF ~onlyInGameState(gameId, Waiting) THEN "Invalid game state"
    ELSE IF games[gameId].playersJoined >= 2 THEN "Game is full"
    ELSE IF \/ games[gameId].players[0] = sender
            \/ games[gameId].players[1] = sender
         THEN "Already joined this game"
    ELSE IF /\ playerToGame[sender] # 0
            /\ games[playerToGame[sender]].state # Finished
         THEN "Already in another game"
    ELSE IF games[gameId].playersJoined >= 2 THEN "Player index out of bounds"
    ELSE IF ~proofOk THEN "Invalid proof"
    ELSE "ok"

\* joinGameEffect with the game started by any join, not by the second.
joinGameEffect_StartOnAnyJoin(game, sender, encryptedCardTypes) ==
    LET playerIndex == game.playersJoined
        joined ==
            [game EXCEPT
                !.players[playerIndex] = sender,
                !.aliveCount[playerIndex] = DeckSize,
                !.cards[playerIndex] =
                    [i \in CardIdx |-> newCard(encryptedCardTypes[i + 1], sender)],
                !.playersJoined = @ + 1]
    IN  [joined EXCEPT !.state = Playing]

\* joinGameEffect with the joining player always written to slot 0.
joinGameEffect_SlotZero(game, sender, encryptedCardTypes) ==
    LET playerIndex == 0
        joined ==
            [game EXCEPT
                !.players[playerIndex] = sender,
                !.aliveCount[playerIndex] = DeckSize,
                !.cards[playerIndex] =
                    [i \in CardIdx |-> newCard(encryptedCardTypes[i + 1], sender)],
                !.playersJoined = @ + 1]
    IN  IF joined.playersJoined = 2
        THEN [joined EXCEPT !.state = Playing]
        ELSE joined

\* joinGameEffect without the increment of playersJoined.
joinGameEffect_NoCount(game, sender, encryptedCardTypes) ==
    LET playerIndex == game.playersJoined
    IN  [game EXCEPT
            !.players[playerIndex] = sender,
            !.aliveCount[playerIndex] = DeckSize,
            !.cards[playerIndex] =
                [i \in CardIdx |-> newCard(encryptedCardTypes[i + 1], sender)]]

\* joinGameEffect that leaves the game Waiting after the second join.
joinGameEffect_NeverStarts(game, sender, encryptedCardTypes) ==
    LET playerIndex == game.playersJoined
    IN  [game EXCEPT
            !.players[playerIndex] = sender,
            !.aliveCount[playerIndex] = DeckSize,
            !.cards[playerIndex] =
                [i \in CardIdx |-> newCard(encryptedCardTypes[i + 1], sender)],
            !.playersJoined = @ + 1]

\* The game record after a join that passed every check.
joinGameEffect(game, sender, encryptedCardTypes) ==
    LET playerIndex == game.playersJoined
        joined ==
            [game EXCEPT
                !.players[playerIndex] = sender,
                !.aliveCount[playerIndex] = DeckSize,
                !.cards[playerIndex] =
                    [i \in CardIdx |-> newCard(encryptedCardTypes[i + 1], sender)],
                !.playersJoined = @ + 1]
    IN  IF joined.playersJoined = 2
        THEN [joined EXCEPT !.state = Playing]
        ELSE joined

\* joinGame with the writes of lines 377-379 kept when the proof is refused.
joinGame_NoRollback(sender, gameId, encryptedCardTypes, proofOk) ==
    IF joinGameError(sender, gameId, proofOk) = "ok"
    THEN /\ games' = [games EXCEPT
                         ![gameId] = joinGameEffect(@, sender, encryptedCardTypes)]
         /\ playerToGame' = [playerToGame EXCEPT ![sender] = gameId]
         /\ UNCHANGED nextGameId
    ELSE IF joinGameError(sender, gameId, proofOk) = "Invalid proof"
    THEN /\ games' = [games EXCEPT
                         ![gameId].players[games[gameId].playersJoined] = sender,
                         ![gameId].aliveCount[games[gameId].playersJoined] = DeckSize]
         /\ playerToGame' = [playerToGame EXCEPT ![sender] = gameId]
         /\ UNCHANGED nextGameId
    ELSE UNCHANGED vars

joinGame(sender, gameId, encryptedCardTypes, proofOk) ==
    IF joinGameError(sender, gameId, proofOk) = "ok"
    THEN /\ games' = [games EXCEPT
                         ![gameId] = joinGameEffect(@, sender, encryptedCardTypes)]
         /\ playerToGame' = [playerToGame EXCEPT ![sender] = gameId]
         /\ UNCHANGED nextGameId
    ELSE UNCHANGED vars

(***************************************************************************)
(* playCard and processBattle                                              *)
(***************************************************************************)
\* player1Wins with Eagle beating Bear where the source has Eagle beating Snake.
player1Wins_EagleBeatsBear(card1Type, card2Type) ==
    FHE_or(
        FHE_or(
            FHE_and(FHE_eq(card1Type, 0), FHE_eq(card2Type, 1)),
            FHE_and(FHE_eq(card1Type, 1), FHE_eq(card2Type, 0))),
        FHE_and(FHE_eq(card1Type, 2), FHE_eq(card2Type, 1)))

\* Lines 484-490 and 493-499: the cyclic type advantage, computed and not used.
player1Wins(card1Type, card2Type) ==
    FHE_or(
        FHE_or(
            FHE_and(FHE_eq(card1Type, 0), FHE_eq(card2Type, 2)),
            FHE_and(FHE_eq(card1Type, 1), FHE_eq(card2Type, 0))),
        FHE_and(FHE_eq(card1Type, 2), FHE_eq(card2Type, 1)))

player2Wins(card1Type, card2Type) ==
    FHE_or(
        FHE_or(
            FHE_and(FHE_eq(card2Type, 0), FHE_eq(card1Type, 2)),
            FHE_and(FHE_eq(card2Type, 1), FHE_eq(card1Type, 0))),
        FHE_and(FHE_eq(card2Type, 2), FHE_eq(card1Type, 1)))

\* checkGameOver with >= for >: the first player wins a tie.
checkGameOver_WinnerOnTie(game) ==
    IF game.aliveCount[0] = 0 \/ game.aliveCount[1] = 0
    THEN LET finished == [game EXCEPT !.state = Finished]
         IN  IF finished.aliveCount[0] >= finished.aliveCount[1]
             THEN [finished EXCEPT !.winner = finished.players[0]]
             ELSE IF finished.aliveCount[1] > finished.aliveCount[0]
             THEN [finished EXCEPT !.winner = finished.players[1]]
             ELSE finished
    ELSE game

\* checkGameOver with the two players exchanged in the assignments of winner.
checkGameOver_SwappedWinner(game) ==
    IF game.aliveCount[0] = 0 \/ game.aliveCount[1] = 0
    THEN LET finished == [game EXCEPT !.state = Finished]
         IN  IF finished.aliveCount[0] > finished.aliveCount[1]
             THEN [finished EXCEPT !.winner = finished.players[1]]
             ELSE IF finished.aliveCount[1] > finished.aliveCount[0]
             THEN [finished EXCEPT !.winner = finished.players[0]]
             ELSE finished
    ELSE game

\* checkGameOver with the game ended one card early, at a count of 1.
checkGameOver_OneCardEarly(game) ==
    IF game.aliveCount[0] <= 1 \/ game.aliveCount[1] <= 1
    THEN LET finished == [game EXCEPT !.state = Finished]
         IN  IF finished.aliveCount[0] > finished.aliveCount[1]
             THEN [finished EXCEPT !.winner = finished.players[0]]
             ELSE IF finished.aliveCount[1] > finished.aliveCount[0]
             THEN [finished EXCEPT !.winner = finished.players[1]]
             ELSE finished
    ELSE game

\* checkGameOver that never closes the game.
checkGameOver_NeverEnds(game) == game

\* Lines 513-523: the end-of-game check that closes processBattle.
checkGameOver(game) ==
    IF game.aliveCount[0] = 0 \/ game.aliveCount[1] = 0
    THEN LET finished == [game EXCEPT !.state = Finished]
         IN  IF finished.aliveCount[0] > finished.aliveCount[1]
             THEN [finished EXCEPT !.winner = finished.players[0]]
             ELSE IF finished.aliveCount[1] > finished.aliveCount[0]
             THEN [finished EXCEPT !.winner = finished.players[1]]
             ELSE finished
    ELSE game

\* Checked uint8 arithmetic (solidity ^0.8.24): aliveCount-- and currentRound++
\* revert with a panic instead of wrapping.
processBattlePanics(game) ==
    \/ game.aliveCount[0] = 0
    \/ game.aliveCount[1] = 0
    \/ game.currentRound = Uint8Max

\* processBattle without the reset of the two hasPlayedCard flags.
processBattle_NoReset(game) ==
    LET card1Index == game.currentPlayedCards[0]
        card2Index == game.currentPlayedCards[1]
        damaged ==
            [game EXCEPT
                !.cards[0][card1Index].isAlive = FALSE,
                !.cards[1][card2Index].isAlive = FALSE,
                !.aliveCount[0] = @ - 1,
                !.aliveCount[1] = @ - 1,
                !.currentRound = @ + 1]
    IN  checkGameOver(damaged)

\* processBattle with the type advantage applied: the winning card survives.
processBattle_TypeAdvantage(game) ==
    LET card1Index == game.currentPlayedCards[0]
        card2Index == game.currentPlayedCards[1]
        card1Type == game.cards[0][card1Index].cardType.val
        card2Type == game.cards[1][card2Index].cardType.val
        kill1 == ~player1Wins(card1Type, card2Type)
        kill2 == ~player2Wins(card1Type, card2Type)
        damaged ==
            [game EXCEPT
                !.cards[0][card1Index].isAlive = ~kill1,
                !.cards[1][card2Index].isAlive = ~kill2,
                !.aliveCount[0] = IF kill1 THEN @ - 1 ELSE @,
                !.aliveCount[1] = IF kill2 THEN @ - 1 ELSE @,
                !.hasPlayedCard[0] = FALSE,
                !.hasPlayedCard[1] = FALSE,
                !.currentRound = @ + 1]
    IN  checkGameOver(damaged)

\* processBattle with the decrement of aliveCount[1] left out.
processBattle_NoDecrement(game) ==
    LET card1Index == game.currentPlayedCards[0]
        card2Index == game.currentPlayedCards[1]
        damaged ==
            [game EXCEPT
                !.cards[0][card1Index].isAlive = FALSE,
                !.cards[1][card2Index].isAlive = FALSE,
                !.aliveCount[0] = @ - 1,
                !.hasPlayedCard[0] = FALSE,
                !.hasPlayedCard[1] = FALSE,
                !.currentRound = @ + 1]
    IN  checkGameOver(damaged)

\* processBattle with the damage taken from the health of the played cards.
processBattle_TakesDamage(game) ==
    LET card1Index == game.currentPlayedCards[0]
        card2Index == game.currentPlayedCards[1]
        damaged ==
            [game EXCEPT
                !.cards[0][card1Index].health = @ - 1,
                !.cards[1][card2Index].health = @ - 1,
                !.cards[0][card1Index].isAlive = FALSE,
                !.cards[1][card2Index].isAlive = FALSE,
                !.aliveCount[0] = @ - 1,
                !.aliveCount[1] = @ - 1,
                !.hasPlayedCard[0] = FALSE,
                !.hasPlayedCard[1] = FALSE,
                !.currentRound = @ + 1]
    IN  checkGameOver(damaged)

\* processBattle decrementing the count of player 1 only.
processBattle_OneSided(game) ==
    LET card1Index == game.currentPlayedCards[0]
        card2Index == game.currentPlayedCards[1]
        damaged ==
            [game EXCEPT
                !.cards[0][card1Index].isAlive = FALSE,
                !.cards[1][card2Index].isAlive = FALSE,
                !.aliveCount[1] = @ - 1,
                !.hasPlayedCard[0] = FALSE,
                !.hasPlayedCard[1] = FALSE,
                !.currentRound = @ + 1]
    IN  checkGameOver(damaged)

processBattle(game) ==
    LET card1Index == game.currentPlayedCards[0]
        card2Index == game.currentPlayedCards[1]
        damaged ==
            [game EXCEPT
                !.cards[0][card1Index].isAlive = FALSE,
                !.cards[1][card2Index].isAlive = FALSE,
                !.aliveCount[0] = @ - 1,
                !.aliveCount[1] = @ - 1,
                !.hasPlayedCard[0] = FALSE,
                !.hasPlayedCard[1] = FALSE,
                !.currentRound = @ + 1]
    IN  checkGameOver(damaged)

\* Line 455.
playerIndexOf(sender, gameId) ==
    IF sender = games[gameId].players[0] THEN 0 ELSE 1

\* commitCard that also clears the index committed by the other player.
commitCard_ClearsOther(game, playerIndex, cardIndex) ==
    [game EXCEPT !.currentPlayedCards[playerIndex] = cardIndex,
                 !.currentPlayedCards[1 - playerIndex] = 0,
                 !.hasPlayedCard[playerIndex] = TRUE]

\* Lines 461-462: the commitment of the caller's card.
commitCard(game, playerIndex, cardIndex) ==
    [game EXCEPT !.currentPlayedCards[playerIndex] = cardIndex,
                 !.hasPlayedCard[playerIndex] = TRUE]

\* Lines 461-469: the commitment, and the battle once both have committed.
playCardEffect(game, playerIndex, cardIndex) ==
    LET committed == commitCard(game, playerIndex, cardIndex)
    IN  IF committed.hasPlayedCard[0] /\ committed.hasPlayedCard[1]
        THEN processBattle(committed)
        ELSE committed

\* playCardError without the test of hasPlayedCard.
playCardError_NoAlreadyPlayed(sender, gameId, cardIndex) ==
    IF ~gameExists(gameId) THEN "Game does not exist"
    ELSE IF ~onlyGamePlayer(sender, gameId) THEN "Not a player in this game"
    ELSE IF ~onlyInGameState(gameId, Playing) THEN "Invalid game state"
    ELSE IF ~(cardIndex < DeckSize) THEN "Invalid card index"
    ELSE IF ~games[gameId].cards[playerIndexOf(sender, gameId)][cardIndex].isAlive
         THEN "Card is dead"
    ELSE IF LET committed == commitCard(games[gameId],
                                        playerIndexOf(sender, gameId), cardIndex)
            IN  /\ committed.hasPlayedCard[0]
                /\ committed.hasPlayedCard[1]
                /\ processBattlePanics(committed)
         THEN "Panic"
    ELSE "ok"

\* playCardError without the modifier onlyGamePlayer.
playCardError_NoPlayerCheck(sender, gameId, cardIndex) ==
    IF ~gameExists(gameId) THEN "Game does not exist"
    ELSE IF ~onlyInGameState(gameId, Playing) THEN "Invalid game state"
    ELSE IF ~(cardIndex < DeckSize) THEN "Invalid card index"
    ELSE IF ~games[gameId].cards[playerIndexOf(sender, gameId)][cardIndex].isAlive
         THEN "Card is dead"
    ELSE IF games[gameId].hasPlayedCard[playerIndexOf(sender, gameId)]
         THEN "Already played this round"
    ELSE IF LET committed == commitCard(games[gameId],
                                        playerIndexOf(sender, gameId), cardIndex)
            IN  /\ committed.hasPlayedCard[0]
                /\ committed.hasPlayedCard[1]
                /\ processBattlePanics(committed)
         THEN "Panic"
    ELSE "ok"

\* playCardError without the test of isAlive.
playCardError_NoDeadCheck(sender, gameId, cardIndex) ==
    IF ~gameExists(gameId) THEN "Game does not exist"
    ELSE IF ~onlyGamePlayer(sender, gameId) THEN "Not a player in this game"
    ELSE IF ~onlyInGameState(gameId, Playing) THEN "Invalid game state"
    ELSE IF ~(cardIndex < DeckSize) THEN "Invalid card index"
    ELSE IF games[gameId].hasPlayedCard[playerIndexOf(sender, gameId)]
         THEN "Already played this round"
    ELSE IF LET committed == commitCard(games[gameId],
                                        playerIndexOf(sender, gameId), cardIndex)
            IN  /\ committed.hasPlayedCard[0]
                /\ committed.hasPlayedCard[1]
                /\ processBattlePanics(committed)
         THEN "Panic"
    ELSE "ok"

\* The reason playCard reverts with, in the order the source tests; "ok" if none.
playCardError(sender, gameId, cardIndex) ==
    IF ~gameExists(gameId) THEN "Game does not exist"
    ELSE IF ~onlyGamePlayer(sender, gameId) THEN "Not a player in this game"
    ELSE IF ~onlyInGameState(gameId, Playing) THEN "Invalid game state"
    ELSE IF ~(cardIndex < DeckSize) THEN "Invalid card index"
    ELSE IF ~games[gameId].cards[playerIndexOf(sender, gameId)][cardIndex].isAlive
         THEN "Card is dead"
    ELSE IF games[gameId].hasPlayedCard[playerIndexOf(sender, gameId)]
         THEN "Already played this round"
    ELSE IF LET committed == commitCard(games[gameId],
                                        playerIndexOf(sender, gameId), cardIndex)
            IN  /\ committed.hasPlayedCard[0]
                /\ committed.hasPlayedCard[1]
                /\ processBattlePanics(committed)
         THEN "Panic"
    ELSE "ok"

\* playCard storing the outcome in game 0 whatever the id named.
playCard_WritesGameZero(sender, gameId, cardIndex) ==
    IF playCardError(sender, gameId, cardIndex) = "ok"
    THEN /\ games' = [games EXCEPT
                         ![0] = playCardEffect(
                             games[gameId], playerIndexOf(sender, gameId),
                             cardIndex)]
         /\ UNCHANGED <<nextGameId, playerToGame>>
    ELSE UNCHANGED vars

playCard(sender, gameId, cardIndex) ==
    IF playCardError(sender, gameId, cardIndex) = "ok"
    THEN /\ games' = [games EXCEPT
                         ![gameId] = playCardEffect(
                             @, playerIndexOf(sender, gameId), cardIndex)]
         /\ UNCHANGED <<nextGameId, playerToGame>>
    ELSE UNCHANGED vars

(***************************************************************************)
(* View functions (lines 526-563): the reason each reverts with.           *)
(***************************************************************************)
getGameInfoError(gameId) ==
    IF ~gameExists(gameId) THEN "Game does not exist"
    ELSE "ok"

getPlayerCardsError(gameId, playerIndex) ==
    IF ~gameExists(gameId) THEN "Game does not exist"
    ELSE IF ~(playerIndex < 2) THEN "Invalid player index"
    ELSE "ok"

getAliveCountError(gameId, playerIndex) ==
    IF ~gameExists(gameId) THEN "Game does not exist"
    ELSE IF ~(playerIndex < 2) THEN "Invalid player index"
    ELSE "ok"

\* Every slot index a caller may pass to a view: the two slots and one more.
PlayerIndexInputs == 0..NumPlayers

(***************************************************************************)
(* The callers' inputs.                                                    *)
(***************************************************************************)
\* Submitted decks: one of valid types only, one with out-of-range values.
DeckInputs == {<<0, 0, 1, 1, 2, 2>>, <<2, 1, 0, 3, 255, 1>>}

\* The deck submitted in the registry specification.
RegistryDecks == {<<2, 1, 0, 3, 255, 1>>}

\* Every card index a caller may submit: the six slots and one past the deck.
CardIndexInputs == 0..DeckSize

\* The indices submitted to a game: every slot up to lookAhead past the current
\* round (the dead ones included), and the index past the deck.  In round r at
\* least the slots r..r+lookAhead are alive, so lookAhead = 0 is play in deck
\* order and lookAhead = DeckSize - 1 is every order of play.
PlayInputs(gameId, lookAhead) ==
    {i \in CardIndexInputs : i <= games[gameId].currentRound + lookAhead}
        \cup {DeckSize}

\* The id every call of the single-game specification names: the id the first
\* createGame allocates (it names no game before that call).
FirstGameId == 0

\* The callers of the single-game specification: one address more than a game
\* has slots, so that any two of them are its players and the third is not.
GameCallers == 1..(NumPlayers + 1)

(***************************************************************************)
(* Spec: the registry with several games; the players of a game submit     *)
(* their cards in deck order.                                              *)
(***************************************************************************)
Next ==
    \/ /\ \E sender \in Addresses : createGame(sender)
       /\ UNCHANGED <<ecgVars, eventLog>>
    \/ /\ \E sender \in Addresses, gameId \in GameIds :
            \E encryptedCardTypes \in RegistryDecks, proofOk \in BOOLEAN :
               joinGame(sender, gameId, encryptedCardTypes, proofOk)
       /\ UNCHANGED <<ecgVars, eventLog>>
    \/ /\ \E sender \in Addresses, gameId \in GameIds :
            \E cardIndex \in PlayInputs(gameId, RegistryLookAhead) :
               playCard(sender, gameId, cardIndex)
       /\ UNCHANGED <<ecgVars, eventLog>>

Spec == Init /\ [][Next]_allVars

(***************************************************************************)
(* SpecGame: the first game alone, every call naming its id; its players   *)
(* choose among the cards of the look-ahead window, with any deck.         *)
(***************************************************************************)
NextGame ==
    \/ /\ \E sender \in GameCallers :
            nextGameId = FirstGameId /\ createGame(sender)
       /\ UNCHANGED <<ecgVars, eventLog>>
    \/ /\ \E sender \in GameCallers :
            \E encryptedCardTypes \in DeckInputs, proofOk \in BOOLEAN :
               joinGame(sender, FirstGameId, encryptedCardTypes, proofOk)
       /\ UNCHANGED <<ecgVars, eventLog>>
    \/ /\ \E sender \in GameCallers :
            \E cardIndex \in PlayInputs(FirstGameId, GameLookAhead) :
               playCard(sender, FirstGameId, cardIndex)
       /\ UNCHANGED <<ecgVars, eventLog>>

SpecGame == Init /\ [][NextGame]_allVars

\* An accepted playCard of the player in slot playerIndex of the first game:
\* an alive card of the window, submitted while that player has not yet played
\* in the current round (lines 450-470 with every require passed).
PlayerSubmits(playerIndex) ==
    /\ \E cardIndex \in PlayInputs(FirstGameId, GameLookAhead) :
          /\ playCardError(games[FirstGameId].players[playerIndex],
                           FirstGameId, cardIndex) = "ok"
          /\ playCard(games[FirstGameId].players[playerIndex],
                      FirstGameId, cardIndex)
    /\ UNCHANGED <<ecgVars, eventLog>>

\* SpecGameFair: SpecGame in which neither player of the game withholds a
\* submission forever: a transaction that stays acceptable is eventually sent
\* and mined.
SpecGameFair ==
    /\ SpecGame
    /\ \A playerIndex \in 0..(NumPlayers - 1) :
          WF_allVars(PlayerSubmits(playerIndex))

(***************************************************************************)
(* The emit statements.  A call that reverts leaves no event; a call that  *)
(* returns appends its events to the log in the order the code emits them. *)
(***************************************************************************)
\* eventLog after events (a sequence, in order of emission) were emitted.
logged(events) ==
    [g \in GameIds |-> eventLog[g] \o SelectSeq(events, LAMBDA e : e[2] = g)]

\* Line 319, with the id allocated at line 312.
createGameEvents(sender) ==
    IF createGameError(sender) = "ok"
    THEN <<GameCreated(nextGameId)>>
    ELSE <<>>

\* joinGameEvents announcing the start before the slot taken, on the second join.
joinGameEvents_StartBeforeJoin(sender, gameId, proofOk) ==
    IF joinGameError(sender, gameId, proofOk) = "ok"
    THEN LET playerIndex == games[gameId].playersJoined
         IN  (IF games[gameId].playersJoined + 1 = 2
              THEN <<GameStarted(gameId)>>
              ELSE <<>>)
                 \o <<PlayerJoined(gameId, playerIndex)>>
    ELSE <<>>

\* Lines 432-439: PlayerJoined with the slot taken, then GameStarted if the
\* count incremented at line 430 is 2.
joinGameEvents(sender, gameId, proofOk) ==
    IF joinGameError(sender, gameId, proofOk) = "ok"
    THEN LET playerIndex == games[gameId].playersJoined
         IN  <<PlayerJoined(gameId, playerIndex)>>
                 \o (IF games[gameId].playersJoined + 1 = 2
                     THEN <<GameStarted(gameId)>>
                     ELSE <<>>)
    ELSE <<>>

\* Line 522: GameEnded inside the end-of-game branch of processBattle.
processBattleEvents(game, gameId) ==
    LET resolved == processBattle(game)
    IN  IF resolved.aliveCount[0] = 0 \/ resolved.aliveCount[1] = 0
        THEN <<GameEnded(gameId)>>
        ELSE <<>>

\* Lines 464-469: CardPlayed, then the events of the battle if both played.
playCardEvents(sender, gameId, cardIndex) ==
    IF playCardError(sender, gameId, cardIndex) = "ok"
    THEN LET committed == commitCard(games[gameId],
                                     playerIndexOf(sender, gameId), cardIndex)
         IN  <<CardPlayed(gameId)>>
                 \o (IF committed.hasPlayedCard[0] /\ committed.hasPlayedCard[1]
                     THEN processBattleEvents(committed, gameId)
                     ELSE <<>>)
    ELSE <<>>

(***************************************************************************)
(* SpecEvents: the registry with several games and the log of its events;  *)
(* the players submit their cards in deck order.                           *)
(***************************************************************************)
NextEvents ==
    \/ /\ \E sender \in GameCallers :
            /\ createGame(sender)
            /\ eventLog' = logged(createGameEvents(sender))
       /\ UNCHANGED ecgVars
    \/ /\ \E sender \in GameCallers, gameId \in GameIds :
            \E encryptedCardTypes \in RegistryDecks, proofOk \in BOOLEAN :
               /\ joinGame(sender, gameId, encryptedCardTypes, proofOk)
               /\ eventLog' = logged(joinGameEvents(sender, gameId, proofOk))
       /\ UNCHANGED ecgVars
    \/ /\ \E sender \in GameCallers, gameId \in GameIds :
            \E cardIndex \in PlayInputs(gameId, RegistryLookAhead) :
               /\ playCard(sender, gameId, cardIndex)
               /\ eventLog' = logged(playCardEvents(sender, gameId, cardIndex))
       /\ UNCHANGED ecgVars

SpecEvents == Init /\ [][NextEvents]_<<allVars, eventLog>>

(***************************************************************************)
(* EncryptedCardGame (lines 572-932): one game per deployment, with        *)
(* confidential health and alive flags and a three-way battle result.      *)
(***************************************************************************)
FHE_ge(a, b) == a >= b
FHE_le(a, b) == a <= b
FHE_gt(a, b) == a > b
FHE_add(a, b) == (a + b) % (Uint8Max + 1)

onlyValidPlayer(sender) ==
    sender = players[0].playerAddress \/ sender = players[1].playerAddress

onlyInState(state) == gameState = state

\* The Card stored by joinGame for one submitted type and health (lines
\* 636-660).
ECG_newCard(cardType, health, sender) ==
    LET validType1 == FHE_eq(cardType, 0)
        validType2 == FHE_eq(cardType, 1)
        validType3 == FHE_eq(cardType, 2)
        isValidType == FHE_or(FHE_or(validType1, validType2), validType3)
        validHealth == FHE_and(FHE_ge(health, 1), FHE_le(health, 10))
    IN  [cardType |->
            Handle(FHE_select(FHE_and(isValidType, validHealth),
                              cardType, FHE_asEuint8(0)),
                   {ThisContract, sender}),
         health |->
            Handle(FHE_select(FHE_and(isValidType, validHealth),
                              health, FHE_asEuint8(1)),
                   {ThisContract, sender}),
         isAlive |-> Handle(TRUE, {ThisContract, sender})]

ECG_joinGameError(sender, proofOk) ==
    IF ~onlyInState(Waiting) THEN "Invalid game state"
    ELSE IF ~(playersJoined < 2) THEN "Game is full"
    ELSE IF ~(~players[0].hasJoined \/ players[0].playerAddress # sender)
    THEN "Player already joined"
    ELSE IF ~(~players[1].hasJoined \/ players[1].playerAddress # sender)
    THEN "Player already joined"
    ELSE IF ~proofOk THEN "Invalid proof"
    ELSE "ok"

ECG_joinGame(sender, encryptedCardTypes, encryptedCardHealth, proofOk) ==
    IF ECG_joinGameError(sender, proofOk) = "ok"
    THEN LET playerIndex == playersJoined
         IN  /\ players' =
                   [players EXCEPT ![playerIndex] =
                       [playerAddress |-> sender,
                        hasJoined |-> TRUE,
                        aliveCount |-> Handle(FHE_asEuint8(6),
                                              {ThisContract, sender}),
                        cards |-> [i \in CardIdx |->
                                     ECG_newCard(encryptedCardTypes[i + 1],
                                                 encryptedCardHealth[i + 1],
                                                 sender)]]]
             /\ playersJoined' = playersJoined + 1
             /\ gameState' = IF playersJoined + 1 = 2 THEN Playing
                                                      ELSE gameState
             /\ UNCHANGED <<currentRound, currentPlayedCards, hasPlayedCard,
                            battleResults>>
    ELSE UNCHANGED ecgVars

\* The select loop stopping one card early (i < 5).
RECURSIVE selectChain_FiveCards(_, _, _, _)
selectChain_FiveCards(values, cardIndex, i, result) ==
    IF i < 5
    THEN LET isIndex == FHE_eq(cardIndex, i)
         IN  selectChain_FiveCards(values, cardIndex, i + 1,
                                   FHE_select(isIndex, values[i], result))
    ELSE result

\* The loop of the three select chains (lines 787-790, 798-801, 809-812) from
\* iteration i on: values[k] is the field of card k, result the accumulator.
RECURSIVE selectChain(_, _, _, _)
selectChain(values, cardIndex, i, result) ==
    IF i < 6
    THEN LET isIndex == FHE_eq(cardIndex, i)
         IN  selectChain(values, cardIndex, i + 1,
                         FHE_select(isIndex, values[i], result))
    ELSE result

getCardByIndex(playerIndex, cardIndex) ==
    selectChain([i \in CardIdx |-> players[playerIndex].cards[i].cardType.val],
                cardIndex, 0, players[playerIndex].cards[0].cardType.val)

getCardHealthByIndex(playerIndex, cardIndex) ==
    selectChain([i \in CardIdx |-> players[playerIndex].cards[i].health.val],
                cardIndex, 0, players[playerIndex].cards[0].health.val)

getCardAliveByIndex(playerIndex, cardIndex) ==
    selectChain([i \in CardIdx |-> players[playerIndex].cards[i].isAlive.val],
                cardIndex, 0, players[playerIndex].cards[0].isAlive.val)

calculateWinner(attacker, defender, attackerHealth, defenderHealth) ==
    LET eagleVsSnake == FHE_and(FHE_eq(attacker, 0), FHE_eq(defender, 2))
        bearVsEagle == FHE_and(FHE_eq(attacker, 1), FHE_eq(defender, 0))
        snakeVsBear == FHE_and(FHE_eq(attacker, 2), FHE_eq(defender, 1))
        hasTypeAdvantage ==
            FHE_or(FHE_or(eagleVsSnake, bearVsEagle), snakeVsBear)
        sameType == FHE_eq(attacker, defender)
        higherHealth == FHE_gt(attackerHealth, defenderHealth)
    IN  FHE_or(hasTypeAdvantage, FHE_and(sameType, higherHealth))

\* updateAliveCount on the storage ps: the count of the alive flags, summed
\* card by card (lines 860-871).
RECURSIVE countAlive(_, _, _, _)
countAlive(ps, playerIndex, i, count) ==
    IF i < 6
    THEN LET increment == FHE_select(ps[playerIndex].cards[i].isAlive.val,
                                     FHE_asEuint8(1), FHE_asEuint8(0))
         IN  countAlive(ps, playerIndex, i + 1, FHE_add(count, increment))
    ELSE count

updateAliveCount(ps, playerIndex) ==
    [ps EXCEPT ![playerIndex].aliveCount =
        Handle(countAlive(ps, playerIndex, 0, FHE_asEuint8(0)),
               {ThisContract, ps[playerIndex].playerAddress})]

\* updateCardStatus: the players after the round's cards were killed and the
\* counts recomputed (lines 817-858).
updateCardStatus(result, card1Index, card2Index) ==
    LET player1Won == FHE_eq(result, 1)
        player2Won == FHE_eq(result, 2)
        isDraw == FHE_eq(result, 0)
        killPlayer1Card(i) ==
            FHE_and(FHE_eq(card1Index, i), FHE_or(player2Won, isDraw))
        killPlayer2Card(i) ==
            FHE_and(FHE_eq(card2Index, i), FHE_or(player1Won, isDraw))
        kill(p, i) == IF p = 0 THEN killPlayer1Card(i) ELSE killPlayer2Card(i)
        killed ==
            [p \in PlayerIdx |->
                [players[p] EXCEPT !.cards =
                    [i \in CardIdx |->
                        [players[p].cards[i] EXCEPT !.isAlive =
                            Handle(FHE_select(kill(p, i), FALSE,
                                              players[p].cards[i].isAlive.val),
                                   {ThisContract, players[p].playerAddress})]]]]
    IN  updateAliveCount(updateAliveCount(killed, 0), 1)

\* battleResult without the bothAlive conjunct: a dead card can win.
battleResult_NoAliveCheck(card1Index, card2Index) ==
    LET card1Wins == calculateWinner(getCardByIndex(0, card1Index),
                                     getCardByIndex(1, card2Index),
                                     getCardHealthByIndex(0, card1Index),
                                     getCardHealthByIndex(1, card2Index))
        card2Wins == calculateWinner(getCardByIndex(1, card2Index),
                                     getCardByIndex(0, card1Index),
                                     getCardHealthByIndex(1, card2Index),
                                     getCardHealthByIndex(0, card1Index))
    IN  FHE_select(card1Wins, FHE_asEuint8(1),
                   FHE_select(card2Wins, FHE_asEuint8(2), FHE_asEuint8(0)))

\* The result code of resolveBattle for the two committed indices (lines
\* 713-737).
battleResult(card1Index, card2Index) ==
    LET actualCard1Type == getCardByIndex(0, card1Index)
        actualCard1Health == getCardHealthByIndex(0, card1Index)
        actualCard1Alive == getCardAliveByIndex(0, card1Index)
        actualCard2Type == getCardByIndex(1, card2Index)
        actualCard2Health == getCardHealthByIndex(1, card2Index)
        actualCard2Alive == getCardAliveByIndex(1, card2Index)
        bothAlive == FHE_and(actualCard1Alive, actualCard2Alive)
        card1Wins == calculateWinner(actualCard1Type, actualCard2Type,
                                     actualCard1Health, actualCard2Health)
        card2Wins == calculateWinner(actualCard2Type, actualCard1Type,
                                     actualCard2Health, actualCard1Health)
    IN  FHE_select(FHE_and(bothAlive, card1Wins), FHE_asEuint8(1),
                   FHE_select(FHE_and(bothAlive, card2Wins), FHE_asEuint8(2),
                              FHE_asEuint8(0)))

\* checkGameEnd has an empty body (lines 873-877).
checkGameEnd == UNCHANGED gameState

\* resolveBattle on the indices playCard has just stored; the write of line
\* 742 is inside the array only while currentRound < 2.
resolveBattle(playedCards) ==
    LET result == battleResult(playedCards[0].val, playedCards[1].val)
    IN  /\ players' =
              updateCardStatus(result, playedCards[0].val, playedCards[1].val)
        /\ battleResults' =
              [battleResults EXCEPT ![currentRound] =
                  Handle(result, {ThisContract, players[0].playerAddress,
                                  players[1].playerAddress})]
        /\ currentRound' = currentRound + 1
        /\ hasPlayedCard' = [p \in PlayerIdx |-> FALSE]
        /\ checkGameEnd

\* The index playCard stores for a submitted index (lines 685-692).
safeIndex(playerIndex, cardIndex) ==
    LET validIndex == FHE_le(cardIndex, 5)
        cardIsAlive == getCardAliveByIndex(playerIndex, cardIndex)
        canPlayCard == FHE_and(validIndex, cardIsAlive)
    IN  FHE_select(canPlayCard, cardIndex, FHE_asEuint8(0))

ECG_playerIndexOf(sender) == IF sender = players[0].playerAddress THEN 0 ELSE 1

ECG_playCardError(sender, proofOk) ==
    IF ~onlyValidPlayer(sender) THEN "Not a valid player"
    ELSE IF ~onlyInState(Playing) THEN "Invalid game state"
    ELSE IF ~proofOk THEN "Invalid proof"
    ELSE IF /\ hasPlayedCard[1 - ECG_playerIndexOf(sender)]
            /\ ~(currentRound < BattleResultsLength)
    THEN "Panic(0x32)"
    ELSE "ok"

ECG_playCard(sender, encryptedCardIndex, proofOk) ==
    IF ECG_playCardError(sender, proofOk) = "ok"
    THEN LET playerIndex == ECG_playerIndexOf(sender)
             playedCards ==
                 [currentPlayedCards EXCEPT ![playerIndex] =
                     Handle(safeIndex(playerIndex, encryptedCardIndex),
                            {ThisContract})]
             played == [hasPlayedCard EXCEPT ![playerIndex] = TRUE]
         IN  /\ currentPlayedCards' = playedCards
             /\ IF played[0] /\ played[1]
                THEN resolveBattle(playedCards)
                ELSE /\ hasPlayedCard' = played
                     /\ UNCHANGED <<gameState, players, currentRound,
                                    battleResults>>
             /\ UNCHANGED playersJoined
    ELSE UNCHANGED ecgVars

endGameError ==
    IF ~(gameState = Playing) THEN "Game not in playing state"
    ELSE "ok"

\* endGame(winner): the winner is only emitted, any sender is accepted.
endGame(sender, winner) ==
    IF endGameError = "ok"
    THEN /\ gameState' = Finished
         /\ UNCHANGED <<players, playersJoined, currentRound,
                        currentPlayedCards, hasPlayedCard, battleResults>>
    ELSE UNCHANGED ecgVars

\* getPlayerCards of EncryptedCardGame without its second require.
ECG_getPlayerCardsError_Open(sender, playerIndex) ==
    IF ~(playerIndex < 2) THEN "Invalid player index"
    ELSE "ok"

\* View functions of EncryptedCardGame (lines 894-915).
ECG_getPlayerCardsError(sender, playerIndex) ==
    IF ~(playerIndex < 2) THEN "Invalid player index"
    ELSE IF ~(sender = players[playerIndex].playerAddress)
    THEN "Not authorized"
    ELSE "ok"

ECG_getAliveCountError(sender, playerIndex) ==
    IF ~(playerIndex < 2) THEN "Invalid player index"
    ELSE IF ~(sender = players[playerIndex].playerAddress)
    THEN "Not authorized"
    ELSE "ok"

ECG_getAliveCount(playerIndex) == players[playerIndex].aliveCount

getBattleResultError(round) ==
    IF ~(round < currentRound) THEN "Round not finished"
    ELSE IF ~(round < BattleResultsLength) THEN "Panic(0x32)"
    ELSE "ok"

getBattleResult(round) == battleResults[round]

(***************************************************************************)
(* SpecExt: one deployment of EncryptedCardGame.  A deck is the pair of    *)
(* the submitted types and healths.                                        *)
(***************************************************************************)
\* Submitted decks: one of valid values only, one with types and healths out
\* of range (health 0 in slot 1, type 3 in slot 2, health 11 in slot 4).
ECG_DeckInputs ==
    {<<<<0, 1, 2, 0, 1, 2>>, <<3, 3, 3, 3, 3, 3>>>>,
     <<<<0, 1, 3, 2, 2, 2>>, <<7, 0, 5, 10, 11, 1>>>>}

\* Submitted card indices: the first slots of the deck and one above 5.
ECG_CardIndexInputs == 0..MaxCardIndex \cup {DeckSize}

NextExt ==
    \/ /\ \E sender \in GameCallers, deck \in ECG_DeckInputs :
            \E proofOk \in BOOLEAN :
               ECG_joinGame(sender, deck[1], deck[2], proofOk)
       /\ UNCHANGED <<vars, eventLog>>
    \/ /\ \E sender \in GameCallers, cardIndex \in ECG_CardIndexInputs :
            \E proofOk \in BOOLEAN :
               ECG_playCard(sender, cardIndex, proofOk)
       /\ UNCHANGED <<vars, eventLog>>
    \/ /\ \E sender \in GameCallers, winner \in GameCallers :
            endGame(sender, winner)
       /\ UNCHANGED <<vars, eventLog>>

SpecExt == Init /\ [][NextExt]_allVars

(***************************************************************************)
(* The first listing of EncryptedCardGameV2 (lines 7-247).  Its storage    *)
(* is declared as in the second listing (Card[6][2] cards: two rows of six *)
(* cards), but it addresses a card as cards[cardIndex][playerIndex], it    *)
(* records the creator in playerToGame, and its views are restricted to    *)
(* the owner of the slot.  An index outside a row or outside the two rows  *)
(* is a panic, which reverts the call.                                     *)
(***************************************************************************)
\* game.cards[row][column] is inside Card[6][2].
First_cardInBounds(row, column) == row < 2 /\ column < 6

First_createGame(sender) ==
    IF createGameError(sender) = "ok"
    THEN /\ nextGameId < MaxGames
         /\ nextGameId' = nextGameId + 1
         /\ games' = [games EXCEPT ![nextGameId].state = Waiting,
                                   ![nextGameId].playersJoined = 0,
                                   ![nextGameId].currentRound = 0]
         /\ playerToGame' = [playerToGame EXCEPT ![sender] = nextGameId]
    ELSE UNCHANGED vars

First_joinGameError(sender, gameId, proofOk) ==
    IF ~gameExists(gameId) THEN "Game does not exist"
    ELSE IF ~onlyInGameState(gameId, Waiting) THEN "Invalid game state"
    ELSE IF ~(games[gameId].playersJoined < 2) THEN "Game is full"
    ELSE IF ~(/\ games[gameId].players[0] # sender
              /\ games[gameId].players[1] # sender)
         THEN "Already joined this game"
    ELSE IF ~(\/ playerToGame[sender] = 0
              \/ games[playerToGame[sender]].state = Finished)
         THEN "Already in another game"
    ELSE IF ~(games[gameId].playersJoined < 2) THEN "Player index out of bounds"
    ELSE IF ~proofOk THEN "Invalid proof"
    ELSE IF \E i \in CardIdx :
                ~First_cardInBounds(i, games[gameId].playersJoined)
         THEN "Panic(0x32)"
    ELSE "ok"

\* Lines 92-127, for a call in which every card write is inside the array.
First_joinGameEffect(game, sender, encryptedCardTypes) ==
    LET playerIndex == game.playersJoined
        joined ==
            [game EXCEPT
                !.players[playerIndex] = sender,
                !.aliveCount[playerIndex] = 6,
                !.cards = [row \in PlayerIdx |-> [column \in CardIdx |->
                              IF column = playerIndex
                              THEN newCard(encryptedCardTypes[row + 1], sender)
                              ELSE game.cards[row][column]]],
                !.playersJoined = @ + 1]
    IN  IF joined.playersJoined = 2
        THEN [joined EXCEPT !.state = Playing]
        ELSE joined

First_joinGame(sender, gameId, encryptedCardTypes, proofOk) ==
    IF First_joinGameError(sender, gameId, proofOk) = "ok"
    THEN /\ games' = [games EXCEPT
                         ![gameId] =
                             First_joinGameEffect(@, sender, encryptedCardTypes)]
         /\ playerToGame' = [playerToGame EXCEPT ![sender] = gameId]
         /\ UNCHANGED nextGameId
    ELSE UNCHANGED vars

\* processBattle with the cards addressed as cards[cardIndex][playerIndex]
\* (lines 152-204); the end of the game is tested as in checkGameOver.
First_processBattle(game) ==
    LET card1Index == game.currentPlayedCards[0]
        card2Index == game.currentPlayedCards[1]
        damaged ==
            [game EXCEPT
                !.cards[card1Index][0].isAlive = FALSE,
                !.cards[card2Index][1].isAlive = FALSE,
                !.aliveCount[0] = @ - 1,
                !.aliveCount[1] = @ - 1,
                !.hasPlayedCard[0] = FALSE,
                !.hasPlayedCard[1] = FALSE,
                !.currentRound = @ + 1]
    IN  checkGameOver(damaged)

First_processBattlePanics(game) ==
    \/ ~First_cardInBounds(game.currentPlayedCards[0], 0)
    \/ ~First_cardInBounds(game.currentPlayedCards[1], 1)
    \/ game.aliveCount[0] = 0
    \/ game.aliveCount[1] = 0
    \/ game.currentRound = Uint8Max

First_playCardError(sender, gameId, cardIndex) ==
    IF ~gameExists(gameId) THEN "Game does not exist"
    ELSE IF ~onlyGamePlayer(sender, gameId) THEN "Not a player in this game"
    ELSE IF ~onlyInGameState(gameId, Playing) THEN "Invalid game state"
    ELSE IF ~(cardIndex < 6) THEN "Invalid card index"
    ELSE IF ~First_cardInBounds(cardIndex, playerIndexOf(sender, gameId))
         THEN "Panic(0x32)"
    ELSE IF ~games[gameId].cards[cardIndex][playerIndexOf(sender, gameId)].isAlive
         THEN "Card is dead"
    ELSE IF games[gameId].hasPlayedCard[playerIndexOf(sender, gameId)]
         THEN "Already played this round"
    ELSE IF LET committed == commitCard(games[gameId],
                                        playerIndexOf(sender, gameId), cardIndex)
            IN  /\ committed.hasPlayedCard[0]
                /\ committed.hasPlayedCard[1]
                /\ First_processBattlePanics(committed)
         THEN "Panic"
    ELSE "ok"

First_playCard(sender, gameId, cardIndex) ==
    IF First_playCardError(sender, gameId, cardIndex) = "ok"
    THEN LET committed == commitCard(games[gameId],
                                     playerIndexOf(sender, gameId), cardIndex)
         IN  /\ games' = [games EXCEPT
                             ![gameId] =
                                 IF /\ committed.hasPlayedCard[0]
                                    /\ committed.hasPlayedCard[1]
                                 THEN First_processBattle(committed)
                                 ELSE committed]
             /\ UNCHANGED <<nextGameId, playerToGame>>
    ELSE UNCHANGED vars

\* The views of the first listing (lines 224-246).  getPlayerCards reads
\* game.cards[i][playerIndex] for i = 0..5 once the caller is authorized.
First_getPlayerCardsError(sender, gameId, playerIndex) ==
    IF ~gameExists(gameId) THEN "Game does not exist"
    ELSE IF ~(playerIndex < 2) THEN "Invalid player index"
    ELSE IF ~(sender = games[gameId].players[playerIndex])
         THEN "Not authorized"
    ELSE IF \E i \in CardIdx : ~First_cardInBounds(i, playerIndex)
         THEN "Panic(0x32)"
    ELSE "ok"

First_getAliveCountError(sender, gameId, playerIndex) ==
    IF ~gameExists(gameId) THEN "Game does not exist"
    ELSE IF ~(playerIndex < 2) THEN "Invalid player index"
    ELSE IF ~(sender = games[gameId].players[playerIndex])
         THEN "Not authorized"
    ELSE "ok"

(***************************************************************************)
(* SpecGated: the two contracts whose views are restricted to the owner of *)
(* the slot, EncryptedCardGame and the first listing of                    *)
(* EncryptedCardGameV2, each deployed once.                                *)
(***************************************************************************)
NextFirst ==
    \/ /\ \E sender \in GameCallers : First_createGame(sender)
       /\ UNCHANGED <<ecgVars, eventLog>>
    \/ /\ \E sender \in GameCallers, gameId \in GameIds :
            \E encryptedCardTypes \in RegistryDecks, proofOk \in BOOLEAN :
               First_joinGame(sender, gameId, encryptedCardTypes, proofOk)
       /\ UNCHANGED <<ecgVars, eventLog>>
    \/ /\ \E sender \in GameCallers, gameId \in GameIds :
            \E cardIndex \in PlayInputs(gameId, RegistryLookAhead) :
               First_playCard(sender, gameId, cardIndex)
       /\ UNCHANGED <<ecgVars, eventLog>>

\* The calls of EncryptedCardGame in this specification: every join and
\* endGame, and the submissions of index 0 and of the index past the deck.
NextGatedExt ==
    \/ /\ \E sender \in GameCallers, deck \in ECG_DeckInputs :
            \E proofOk \in BOOLEAN :
               ECG_joinGame(sender, deck[1], deck[2], proofOk)
       /\ UNCHANGED <<vars, eventLog>>
    \/ /\ \E sender \in GameCallers, cardIndex \in {0, DeckSize} :
            \E proofOk \in BOOLEAN :
               ECG_playCard(sender, cardIndex, proofOk)
       /\ UNCHANGED <<vars, eventLog>>
    \/ /\ \E sender \in GameCallers, winner \in GameCallers :
            endGame(sender, winner)
       /\ UNCHANGED <<vars, eventLog>>

NextGated == NextGatedExt \/ NextFirst

SpecGated == Init /\ [][NextGated]_allVars

(***************************************************************************)
(* Helpers of the properties.                                              *)
(***************************************************************************)
\* The games a player occupies: created, not Finished, and a is in a slot.
UnfinishedGamesOf(a) ==
    {g \in GameIds : /\ gameExists(g)
                     /\ games[g].state # Finished
                     /\ a \in {games[g].players[0], games[g].players[1]}}

AliveCards(game, p) == {i \in CardIdx : game.cards[p][i].isAlive}

(***************************************************************************)
(* C1: in every reachable state every address is a player of at most one   *)
(* game that is not Finished (a joinGame by a player of any unfinished     *)
(* game, the game with id 0 included, is rejected).                        *)
(***************************************************************************)
C1_OneUnfinishedGamePerAddress ==
    \A a \in Addresses : Cardinality(UnfinishedGamesOf(a)) <= 1

(***************************************************************************)
(* C2: the state of a game changes only from Waiting to Playing, in the    *)
(* join that brings playersJoined from 1 to 2, and from Playing to         *)
(* Finished, in a resolution (currentRound grows by one); never backwards, *)
(* never from Waiting to Finished.                                         *)
(***************************************************************************)
C2_StateStep(old, new) ==
    \/ new.state = old.state
    \/ /\ old.state = Waiting
       /\ new.state = Playing
       /\ old.playersJoined = 1
       /\ new.playersJoined = 2
    \/ /\ old.state = Playing
       /\ new.state = Finished
       /\ new.currentRound = old.currentRound + 1
       /\ ~new.hasPlayedCard[0] /\ ~new.hasPlayedCard[1]

\* C2: every step of every game is a step of C2_StateStep: the state never goes
\* backwards and never from Waiting to Finished.
C2_StateOnlyForward ==
    [][\A g \in GameIds : C2_StateStep(games[g], games'[g])]_vars

C2_Witness ==
    \E g \in GameIds : gameExists(g) /\ games[g].state = Finished

(***************************************************************************)
(* C3: in every reachable state, for each slot p of every game,            *)
(* aliveCount[p] is the number of cards of p with isAlive = TRUE.          *)
(***************************************************************************)
C3_AliveCountIsCount ==
    \A g \in GameIds : \A p \in PlayerIdx :
        games[g].aliveCount[p] = Cardinality(AliveCards(games[g], p))

C3_Witness ==
    \E g \in GameIds :
        /\ games[g].state = Playing
        /\ games[g].currentRound = 3
        /\ games[g].aliveCount[0] = 3
        /\ games[g].aliveCount[1] = 3
        /\ AliveCards(games[g], 0) # AliveCards(games[g], 1)

(***************************************************************************)
(* C4, as claimed: once a side's aliveCount has reached 0 the game is      *)
(* Finished and winner is the address of the other side, the player whose  *)
(* aliveCount did not reach 0.                                             *)
(***************************************************************************)
C4_SideAtZero(game) ==
    /\ game.playersJoined = 2
    /\ game.aliveCount[0] = 0 \/ game.aliveCount[1] = 0

C5_WinnerByCounts(game) ==
    IF game.aliveCount[0] > game.aliveCount[1] THEN game.players[0]
    ELSE IF game.aliveCount[1] > game.aliveCount[0] THEN game.players[1]
    ELSE ZeroAddress

C5_UnsetUntilFinished ==
    \A g \in GameIds : games[g].state # Finished => games[g].winner = ZeroAddress

C5_SetAtFinish ==
    \A g \in GameIds :
        (games[g].state # Finished /\ games'[g].state = Finished) =>
            games'[g].winner = C5_WinnerByCounts(games'[g])

C5_RuleOnAnyCounts ==
    \A g \in GameIds :
        games[g].state = Playing =>
            \A a0, a1 \in 0..DeckSize :
                LET counted == [games[g] EXCEPT !.aliveCount[0] = a0,
                                                !.aliveCount[1] = a1]
                IN  (a0 = 0 \/ a1 = 0) =>
                        /\ checkGameOver(counted).state = Finished
                        /\ checkGameOver(counted).winner = C5_WinnerByCounts(counted)

\* C5: winner is unset until Finished and set by the comparison of the counts.
C5_WinnerRule ==
    /\ [](C5_UnsetUntilFinished /\ C5_RuleOnAnyCounts)
    /\ [][C5_SetAtFinish]_vars

C5_Witness ==
    \E g \in GameIds :
        /\ games[g].state = Finished
        /\ games[g].aliveCount[0] = games[g].aliveCount[1]
        /\ games[g].winner = ZeroAddress
        /\ games[g].players[0] # games[g].players[1]

(***************************************************************************)
(* C6: the playCard that sets the second hasPlayedCard flag resolves the   *)
(* battle in the same call: after it both flags are FALSE and currentRound *)
(* is one more than before.  No state between calls has both flags TRUE,   *)
(* and a playCard that does not complete the round leaves currentRound     *)
(* unchanged.                                                              *)
(***************************************************************************)
C6_NeverBothPending ==
    \A g \in GameIds : ~(games[g].hasPlayedCard[0] /\ games[g].hasPlayedCard[1])

C6_PlayStep(old, new) ==
    (old.state = Playing /\ new # old) =>
        IF old.hasPlayedCard[0] \/ old.hasPlayedCard[1]
        THEN \* the other player commits: the round is resolved in this call
             /\ ~new.hasPlayedCard[0]
             /\ ~new.hasPlayedCard[1]
             /\ new.currentRound = old.currentRound + 1
        ELSE \* the first commitment of the round
             /\ new.hasPlayedCard[0] # new.hasPlayedCard[1]
             /\ new.currentRound = old.currentRound
             /\ new.state = Playing

\* C6: the second commitment resolves the round within its call.
C6_ResolvedInSameCall ==
    /\ []C6_NeverBothPending
    /\ [][\A g \in GameIds : C6_PlayStep(games[g], games'[g])]_vars

C6_Witness ==
    \E g \in GameIds :
        /\ games[g].state = Playing
        /\ games[g].currentRound = 2
        /\ ~games[g].hasPlayedCard[0]
        /\ ~games[g].hasPlayedCard[1]

(***************************************************************************)
(* C7: while a player's card of the current round is committed and the     *)
(* round is not resolved, every further playCard of that player, with any  *)
(* card index, is rejected and changes nothing.                            *)
(***************************************************************************)
C7_HasCommitted(a, g) ==
    /\ gameExists(g)
    /\ onlyGamePlayer(a, g)
    /\ games[g].state = Playing
    /\ games[g].hasPlayedCard[playerIndexOf(a, g)]

C7_Rejected ==
    \A a \in Addresses, g \in GameIds, i \in CardIndexInputs :
        C7_HasCommitted(a, g) => playCardError(a, g, i) # "ok"

C7_NoEffect ==
    \/ UNCHANGED vars
    \/ \A a \in Addresses, g \in GameIds :
          C7_HasCommitted(a, g) =>
              \A i \in CardIndexInputs : ~playCard(a, g, i)

\* C7: a second playCard of the same player in a round is rejected, no effect.
C7_SecondPlayRejected ==
    /\ []C7_Rejected
    /\ [][C7_NoEffect]_vars

C7_Witness ==
    \E g \in GameIds, a \in Addresses :
        /\ C7_HasCommitted(a, g)
        /\ games[g].currentRound = 1
        /\ \E i \in CardIdx :
              /\ i # games[g].currentPlayedCards[playerIndexOf(a, g)]
              /\ games[g].cards[playerIndexOf(a, g)][i].isAlive

(***************************************************************************)
(* C8: a resolved round in which player 0 played index i and player 1      *)
(* played index j sets cards[0][i] and cards[1][j] to dead whatever the    *)
(* two types are, decrements each aliveCount by exactly 1, and leaves      *)
(* every other card, and the type and health of the two played cards,      *)
(* unchanged.                                                              *)
(***************************************************************************)
C8_ResolveStep(old, new) ==
    new.currentRound = old.currentRound + 1 =>
        LET i == new.currentPlayedCards[0]
            j == new.currentPlayedCards[1]
        IN  /\ old.cards[0][i].isAlive /\ ~new.cards[0][i].isAlive
            /\ old.cards[1][j].isAlive /\ ~new.cards[1][j].isAlive
            /\ new.aliveCount[0] = old.aliveCount[0] - 1
            /\ new.aliveCount[1] = old.aliveCount[1] - 1
            /\ \A k \in CardIdx :
                  /\ k # i => new.cards[0][k] = old.cards[0][k]
                  /\ k # j => new.cards[1][k] = old.cards[1][k]
                  /\ new.cards[0][k].cardType = old.cards[0][k].cardType
                  /\ new.cards[1][k].cardType = old.cards[1][k].cardType
                  /\ new.cards[0][k].health = old.cards[0][k].health
                  /\ new.cards[1][k].health = old.cards[1][k].health

C9_IsFinished(g) == gameExists(g) /\ games[g].state = Finished

C9_CallsRejected ==
    \A g \in GameIds :
        C9_IsFinished(g) =>
            \A a \in Addresses :
                /\ \A proofOk \in BOOLEAN : joinGameError(a, g, proofOk) # "ok"
                /\ \A i \in CardIndexInputs : playCardError(a, g, i) # "ok"

C9_Frozen ==
    \A g \in GameIds : C9_IsFinished(g) => games'[g] = games[g]

\* C9: a Finished game rejects joinGame and playCard and never changes.
C9_FinishedIsFinal ==
    /\ []C9_CallsRejected
    /\ [][C9_Frozen]_vars

\* A Finished game, and a call that went through after it finished: one of
\* its players has joined the next game.
C9_Witness ==
    \E g, h \in GameIds :
        /\ C9_IsFinished(g)
        /\ gameExists(h)
        /\ h # g
        /\ games[h].players[0] \in {games[g].players[0], games[g].players[1]}
        /\ playerToGame[games[h].players[0]] = h
        /\ h > 0

(***************************************************************************)
(* C10: joinGame on a game that is not Waiting (a third address joining a  *)
(* Playing game, for one) is rejected with "Invalid game state" and        *)
(* changes nothing.                                                        *)
(***************************************************************************)
C10_NotWaiting(g) == gameExists(g) /\ games[g].state # Waiting

C10_Reason ==
    \A g \in GameIds :
        C10_NotWaiting(g) =>
            \A a \in Addresses, proofOk \in BOOLEAN :
                joinGameError(a, g, proofOk) = "Invalid game state"

C10_NoEffect ==
    \/ UNCHANGED vars
    \/ \A g \in GameIds :
          C10_NotWaiting(g) =>
              \A a \in Addresses :
                  \A encryptedCardTypes \in DeckInputs, proofOk \in BOOLEAN :
                      ~joinGame(a, g, encryptedCardTypes, proofOk)

\* C10: joinGame on a game that is not Waiting reverts with "Invalid game
\* state" and changes nothing.
C10_JoinNeedsWaiting ==
    /\ []C10_Reason
    /\ [][C10_NoEffect]_vars

\* A Playing game and an address that is not one of its two players.
C10_Witness ==
    \E g \in GameIds, a \in Addresses :
        /\ gameExists(g)
        /\ games[g].state = Playing
        /\ a \notin {games[g].players[0], games[g].players[1]}
        /\ playerToGame[a] = 0

(***************************************************************************)
(* C11: a successful joinGame places the caller in slot k, the value of    *)
(* playersJoined before the call, sets aliveCount[k] to 6 and the six      *)
(* cards of slot k to alive with health 2, and increments playersJoined;   *)
(* the state stays Waiting after the first join and is Playing exactly     *)
(* when the join brought playersJoined to 2.                               *)
(***************************************************************************)
C11_Joined(old, new, sender) ==
    LET k == old.playersJoined
    IN  /\ k \in PlayerIdx
        /\ new.players[k] = sender
        /\ new.aliveCount[k] = 6
        /\ \A i \in CardIdx :
              /\ new.cards[k][i].isAlive
              /\ new.cards[k][i].health = 2
        /\ new.playersJoined = k + 1
        /\ old.state = Waiting
        /\ new.state = (IF k + 1 = 2 THEN Playing ELSE Waiting)
        /\ (k = 0) => new.state = Waiting
        /\ (new.state = Playing) <=> (new.playersJoined = 2)

C11_JoinStep ==
    \/ UNCHANGED vars
    \/ \A a \in Addresses, g \in GameIds :
          joinGameError(a, g, TRUE) = "ok" =>
              \A encryptedCardTypes \in DeckInputs :
                  joinGame(a, g, encryptedCardTypes, TRUE) =>
                      C11_Joined(games[g], games'[g], a)

\* C11: every successful joinGame fills slot playersJoined, counts the player,
\* and starts the game exactly when it is the second join.
C11_JoinFillsNextSlot ==
    [][C11_JoinStep]_vars

\* After the second join: both slots filled, six alive cards each, Playing.
C11_Witness ==
    \E g \in GameIds :
        /\ games[g].playersJoined = 2
        /\ games[g].state = Playing
        /\ games[g].currentRound = 0
        /\ games[g].players[0] # ZeroAddress
        /\ games[g].players[1] # ZeroAddress
        /\ games[g].aliveCount[1] = 6

(***************************************************************************)
(* C12: in every reachable state, for every game, playersJoined is the     *)
(* number of slots whose player is not the zero address, and slot 1 is     *)
(* not occupied while slot 0 is empty.                                     *)
(***************************************************************************)
C12_OccupiedSlots(game) == {s \in PlayerIdx : game.players[s] # ZeroAddress}

\* C12: playersJoined counts the occupied slots, filled in the order 0, 1.
C12_PlayersJoinedIsCount ==
    \A g \in GameIds :
        /\ games[g].playersJoined = Cardinality(C12_OccupiedSlots(games[g]))
        /\ games[g].players[0] = ZeroAddress => games[g].players[1] = ZeroAddress

\* One player in, one slot free.
C12_Witness ==
    \E g \in GameIds :
        /\ gameExists(g)
        /\ games[g].playersJoined = 1
        /\ games[g].players[0] # ZeroAddress
        /\ games[g].players[1] = ZeroAddress

(***************************************************************************)
(* C13: createGame by a caller who is a player of a game that is not       *)
(* Finished is rejected with "Already in a game", whichever id that game   *)
(* has, and then allocates no id and changes nothing.                      *)
(***************************************************************************)
C13_Rejected ==
    \A a \in Addresses :
        UnfinishedGamesOf(a) # {} => createGameError(a) = "Already in a game"

C13_NoEffect ==
    \/ UNCHANGED vars
    \/ \A a \in Addresses :
          UnfinishedGamesOf(a) # {} => ~createGame(a)

\* C13: a player of any unfinished game cannot create a game.
C13_CreateBlockedWhileInGame ==
    /\ []C13_Rejected
    /\ [][C13_NoEffect]_vars

(***************************************************************************)
(* C14: joinGame by the address that already is players[0] of the same     *)
(* Waiting game is rejected with "Already joined this game" and changes    *)
(* nothing; hence in every reachable state of a game with two players      *)
(* joined the two players are different addresses.                         *)
(***************************************************************************)
C14_IsFirstPlayer(a, g) ==
    /\ gameExists(g)
    /\ games[g].state = Waiting
    /\ games[g].players[0] = a

C14_Reason ==
    \A a \in Addresses, g \in GameIds :
        C14_IsFirstPlayer(a, g) =>
            \A proofOk \in BOOLEAN :
                joinGameError(a, g, proofOk) = "Already joined this game"

C14_NoEffect ==
    \/ UNCHANGED vars
    \/ \A a \in Addresses, g \in GameIds :
          C14_IsFirstPlayer(a, g) =>
              \A encryptedCardTypes \in DeckInputs, proofOk \in BOOLEAN :
                  ~joinGame(a, g, encryptedCardTypes, proofOk)

C14_TwoDifferentPlayers ==
    \A g \in GameIds :
        games[g].playersJoined = 2 => games[g].players[0] # games[g].players[1]

\* C14: the first player cannot join the same game again, so the two players
\* of a full game differ.
C14_NoSelfOpponent ==
    /\ [](C14_Reason /\ C14_TwoDifferentPlayers)
    /\ [][C14_NoEffect]_vars

\* The first player of a Waiting game, whose second join is turned down.
C14_Witness ==
    \E g \in GameIds, a \in Addresses :
        /\ C14_IsFirstPlayer(a, g)
        /\ games[g].playersJoined = 1
        /\ joinGameError(a, g, TRUE) = "Already joined this game"

(***************************************************************************)
(* C15: playCard is rejected and changes nothing when the caller is not    *)
(* one of the two players of the game, when cardIndex >= 6, or when the    *)
(* caller's card at cardIndex is dead.  Consequence: no player commits     *)
(* the same card index in two rounds of a game.  A resolution kills the    *)
(* committed card, so the dead cards of a slot are the cards committed in  *)
(* the rounds resolved so far, one per round, and every commitment is of   *)
(* a card outside that set.                                                *)
(***************************************************************************)
DeadCards(game, p) == {i \in CardIdx : ~game.cards[p][i].isAlive}

C15_MustReject(a, g, i) ==
    \/ ~onlyGamePlayer(a, g)
    \/ i >= 6
    \/ ~games[g].cards[playerIndexOf(a, g)][i].isAlive

C15_ExpectedReason(a, g, i) ==
    IF ~onlyGamePlayer(a, g) THEN "Not a player in this game"
    ELSE IF games[g].state # Playing THEN "Invalid game state"
    ELSE IF i >= 6 THEN "Invalid card index"
    ELSE "Card is dead"

C15_Rejected ==
    \A g \in GameIds :
        gameExists(g) =>
            \A a \in Addresses, i \in CardIndexInputs :
                C15_MustReject(a, g, i) =>
                    playCardError(a, g, i) = C15_ExpectedReason(a, g, i)

C15_NoEffect ==
    \A g \in GameIds :
        gameExists(g) =>
            \A a \in Addresses, i \in CardIndexInputs :
                C15_MustReject(a, g, i) => ~playCard(a, g, i)

\* Slot p commits a card in the step from old to new.
C15_Commits(old, new, p) ==
    /\ old.state = Playing
    /\ ~old.hasPlayedCard[p]
    /\ new.hasPlayedCard[p] \/ new.currentRound # old.currentRound

C15_CommitStep(old, new) ==
    \A p \in PlayerIdx :
        /\ C15_Commits(old, new, p) =>
              /\ new.currentPlayedCards[p] \in CardIdx
              /\ new.currentPlayedCards[p] \notin DeadCards(old, p)
        /\ DeadCards(new, p) =
              IF old.state = Playing /\ new.currentRound # old.currentRound
              THEN DeadCards(old, p) \cup {new.currentPlayedCards[p]}
              ELSE IF old.players[p] = ZeroAddress /\ new.players[p] # ZeroAddress
              THEN {}
              ELSE DeadCards(old, p)

C15_NoReplay ==
    \A g \in GameIds :
        \/ games'[g] = games[g]
        \/ C15_CommitStep(games[g], games'[g])

C15_Step ==
    \/ UNCHANGED vars
    \/ C15_NoEffect /\ C15_NoReplay

C15_DeadAreThePlayed ==
    \A g \in GameIds : \A p \in PlayerIdx :
        games[g].playersJoined = 2 =>
            /\ Cardinality(DeadCards(games[g], p)) = games[g].currentRound
            /\ games[g].hasPlayedCard[p] =>
                  games[g].currentPlayedCards[p] \notin DeadCards(games[g], p)

\* C15: the three rejections of playCard, and each card index committed at
\* most once in a game.
C15_PlayRejectedAndNoReplay ==
    /\ [](C15_Rejected /\ C15_DeadAreThePlayed)
    /\ [][C15_Step]_vars

\* Round 2 with a commitment pending, out of deck order: the pending card has
\* a lower index than a card played before; some address is not a player.
C15_Witness ==
    \E g \in GameIds, p \in PlayerIdx :
        /\ games[g].state = Playing
        /\ games[g].currentRound = 2
        /\ games[g].hasPlayedCard[p]
        /\ \E i \in DeadCards(games[g], p) : games[g].currentPlayedCards[p] < i
        /\ \E a \in Addresses : ~onlyGamePlayer(a, g)

(***************************************************************************)
(* C16: a card is alive from the join that creates it, is set to dead at   *)
(* most once, and is never set back to alive; the call that sets it to     *)
(* dead is the resolution of the round it was committed in, and no         *)
(* resolution kills a card that is dead already.                           *)
(***************************************************************************)
C16_SlotJoins(old, new, p) ==
    old.players[p] = ZeroAddress /\ new.players[p] # ZeroAddress

C16_Resolves(old, new) ==
    old.state = Playing /\ new.currentRound = old.currentRound + 1

\* No card is alive before the join of its slot.
C16_NoCardBeforeJoin ==
    \A g \in GameIds : \A p \in PlayerIdx :
        games[g].players[p] = ZeroAddress => AliveCards(games[g], p) = {}

C16_CardStep(old, new, p, i) ==
    \* an alive card after the join of the slot
    /\ C16_SlotJoins(old, new, p) => new.cards[p][i].isAlive
    \* only the join of the slot makes a card alive
    /\ (~old.cards[p][i].isAlive /\ new.cards[p][i].isAlive) =>
           C16_SlotJoins(old, new, p)
    \* only the resolution of the round it was committed in kills a card
    /\ (old.cards[p][i].isAlive /\ ~new.cards[p][i].isAlive) =>
           /\ C16_Resolves(old, new)
           /\ new.currentPlayedCards[p] = i
    \* a resolution kills a card that was alive
    /\ (C16_Resolves(old, new) /\ new.currentPlayedCards[p] = i) =>
           /\ old.cards[p][i].isAlive
           /\ ~new.cards[p][i].isAlive

C16_EveryCardStep ==
    \/ UNCHANGED vars
    \/ \A g \in GameIds :
          \/ games'[g] = games[g]
          \/ \A p \in PlayerIdx : \A i \in CardIdx :
                C16_CardStep(games[g], games'[g], p, i)

\* C16: isAlive goes from TRUE to FALSE once, in one resolution, never back.
C16_AliveFlipsOnce ==
    /\ []C16_NoCardBeforeJoin
    /\ [][C16_EveryCardStep]_vars

\* Round 4: the card killed in round 0 is still dead, another is still alive.
C16_Witness ==
    \E g \in GameIds, p \in PlayerIdx :
        /\ games[g].state = Playing
        /\ games[g].currentRound = 4
        /\ ~games[g].cards[p][0].isAlive
        /\ games[g].cards[p][5].isAlive
        /\ games[g].currentPlayedCards[p] # 0

(***************************************************************************)
(* C17: once a player has joined, the stored cardType and health of each   *)
(* of the six cards of that slot never change.  A playCard that does not   *)
(* complete the round writes currentPlayedCards[slot] and                  *)
(* hasPlayedCard[slot] of the caller and nothing else: cards, aliveCount,  *)
(* currentRound, state, winner and players stay as they were.              *)
(***************************************************************************)
C17_CardsKeepTypeAndHealth(old, new) ==
    \A p \in PlayerIdx :
        old.players[p] # ZeroAddress =>
            \A i \in CardIdx :
                /\ new.cards[p][i].cardType = old.cards[p][i].cardType
                /\ new.cards[p][i].health = old.cards[p][i].health

C17_CardsStep ==
    \A g \in GameIds :
        \/ games'[g] = games[g]
        \/ C17_CardsKeepTypeAndHealth(games[g], games'[g])

\* The caller's commitment is the first of the round: no battle in this call.
C17_FirstOfRound(a, g, i) ==
    /\ playCardError(a, g, i) = "ok"
    /\ ~games[g].hasPlayedCard[1 - playerIndexOf(a, g)]

C17_OnlyCommitment(old, new, p, i) ==
    /\ new.currentPlayedCards[p] = i
    /\ new.hasPlayedCard[p]
    /\ new.currentPlayedCards[1 - p] = old.currentPlayedCards[1 - p]
    /\ new.hasPlayedCard[1 - p] = old.hasPlayedCard[1 - p]
    /\ new.cards = old.cards
    /\ new.aliveCount = old.aliveCount
    /\ new.currentRound = old.currentRound
    /\ new.state = old.state
    /\ new.winner = old.winner
    /\ new.players = old.players
    /\ new.playersJoined = old.playersJoined

C17_CommitStep ==
    \A g \in GameIds :
        (gameExists(g) /\ games[g].state = Playing) =>
            \A a \in Addresses :
                onlyGamePlayer(a, g) =>
                    \A i \in CardIdx :
                        (C17_FirstOfRound(a, g, i) /\ playCard(a, g, i)) =>
                            /\ C17_OnlyCommitment(games[g], games'[g],
                                                  playerIndexOf(a, g), i)
                            /\ \A h \in GameIds \ {g} : games'[h] = games[h]
                            /\ UNCHANGED <<nextGameId, playerToGame>>

C17_Step ==
    \/ UNCHANGED vars
    \/ C17_CardsStep /\ C17_CommitStep

\* C17: cards keep their type and health; a commitment that does not complete
\* the round changes only the caller's two commitment fields.
C17_FrameOfPlayCard ==
    [][C17_Step]_vars

\* Round 3, one commitment pending: three cards of each slot are dead, all
\* twelve keep health 2 and an in-range type.
C17_Witness ==
    \E g \in GameIds, p \in PlayerIdx :
        /\ games[g].state = Playing
        /\ games[g].currentRound = 3
        /\ games[g].hasPlayedCard[p]
        /\ ~games[g].hasPlayedCard[1 - p]
        /\ \A q \in PlayerIdx, i \in CardIdx : games[g].cards[q][i].health = 2
        /\ games[g].aliveCount[p] = 3

(***************************************************************************)
(* C18: for every game with two players joined, the state is Finished      *)
(* exactly when aliveCount[0] = 0 or aliveCount[1] = 0.  No Playing game   *)
(* has a player without an alive card to submit, and no game is Finished   *)
(* while both players still have alive cards.                              *)
(***************************************************************************)
C18_SomeCountZero(game) == game.aliveCount[0] = 0 \/ game.aliveCount[1] = 0

\* C18: Finished if and only if a side has no alive card left.
C18_FinishedIffCountZero ==
    \A g \in GameIds :
        games[g].playersJoined = 2 =>
            /\ (games[g].state = Finished) <=> C18_SomeCountZero(games[g])
            /\ games[g].state \in {Playing, Finished}
            /\ games[g].state = Playing =>
                  \A p \in PlayerIdx : AliveCards(games[g], p) # {}
            /\ games[g].state = Finished =>
                  \E p \in PlayerIdx : AliveCards(games[g], p) = {}

\* The last round: Playing with one alive card on each side.
C18_Witness ==
    \E g \in GameIds :
        /\ games[g].playersJoined = 2
        /\ games[g].state = Playing
        /\ games[g].currentRound = 5
        /\ Cardinality(AliveCards(games[g], 0)) = 1
        /\ Cardinality(AliveCards(games[g], 1)) = 1

(***************************************************************************)
(* C19: joinGame stores the submitted type t itself when t is 0, 1 or 2    *)
(* and stores 0 for every other value of 0..255; a join is not rejected    *)
(* for an out-of-range type, and every stored type of every reachable      *)
(* state is 0, 1 or 2.                                                     *)
(***************************************************************************)
C19_Expected(t) == IF t \in {0, 1, 2} THEN t ELSE 0

C19_EveryByte ==
    \A t \in 0..Uint8Max : validatedCardType(t) = C19_Expected(t)

C19_StoredInRange ==
    \A g \in GameIds : \A p \in PlayerIdx : \A i \in CardIdx :
        games[g].cards[p][i].cardType.val \in {0, 1, 2}

\* The join is decided without a look at the types, takes place, and stores
\* the expected type in each of the six cards of the slot.
C19_JoinStores ==
    \/ UNCHANGED vars
    \/ \A a \in Addresses, g \in GameIds :
          joinGameError(a, g, TRUE) = "ok" =>
              \A encryptedCardTypes \in DeckInputs :
                  joinGame(a, g, encryptedCardTypes, TRUE) =>
                      LET k == games[g].playersJoined
                      IN  /\ games'[g].players[k] = a
                          /\ \A i \in CardIdx :
                                games'[g].cards[k][i].cardType.val =
                                    C19_Expected(encryptedCardTypes[i + 1])

\* C19: out-of-range types are stored as 0, never rejected.
C19_TypesNormalised ==
    /\ [](C19_EveryByte /\ C19_StoredInRange)
    /\ [][C19_JoinStores]_vars

\* A slot joined with the deck 2, 1, 0, 3, 255, 1: the 3 and the 255 are
\* stored as 0, the 2 is stored as 2.
C19_Witness ==
    \E g \in GameIds, p \in PlayerIdx :
        /\ games[g].players[p] # ZeroAddress
        /\ [i \in CardIdx |-> games[g].cards[p][i].cardType.val] =
              [i \in CardIdx |-> C19_Expected(<<2, 1, 0, 3, 255, 1>>[i + 1])]
        /\ games[g].cards[p][0].cardType.val = 2
        /\ games[g].cards[p][3].cardType.val = 0
        /\ games[g].cards[p][4].cardType.val = 0

(***************************************************************************)
(* C20: a joinGame whose proof is refused while a card is ingested has no  *)
(* effect at all: players, aliveCount, playersJoined, the caller's         *)
(* playerToGame entry and the six card slots are as before the call,       *)
(* although players[slot], aliveCount[slot] and playerToGame are written   *)
(* before the first card is ingested.                                      *)
(***************************************************************************)
\* Every test ahead of the ingestion passes for this caller.
C20_ReachesIngestion(a, g) == joinGameError(a, g, TRUE) = "ok"

C20_Reason ==
    \A a \in Addresses, g \in GameIds :
        C20_ReachesIngestion(a, g) => joinGameError(a, g, FALSE) = "Invalid proof"

C20_NoEffect ==
    \/ UNCHANGED vars
    \/ \A a \in Addresses, g \in GameIds :
          C20_ReachesIngestion(a, g) =>
              \A encryptedCardTypes \in DeckInputs :
                  ~joinGame(a, g, encryptedCardTypes, FALSE)

\* C20: a refused proof rejects the whole join.
C20_RefusedProofNoEffect ==
    /\ []C20_Reason
    /\ [][C20_NoEffect]_vars

\* The second slot of a Waiting game is free and the caller would be let in:
\* the refused proof is the only reason of the rejection.
C20_Witness ==
    \E g \in GameIds, a \in Addresses :
        /\ games[g].playersJoined = 1
        /\ games[g].players[1] = ZeroAddress
        /\ games[g].aliveCount[1] = 0
        /\ C20_ReachesIngestion(a, g)
        /\ joinGameError(a, g, FALSE) = "Invalid proof"

(***************************************************************************)
(* C21: no timeout and no third-party path.  While a Playing game waits    *)
(* for the submission of the player of slot q, no accepted call of another *)
(* address (a reverted call changes nothing) changes the state, the round, *)
(* a card, the players or the pending flag of q of that game, so no        *)
(* sequence of such calls does.  A Waiting game with one player changes    *)
(* only by the join of a second, eligible address; until then it stays     *)
(* Waiting and its player still occupies an unfinished game.               *)
(***************************************************************************)
C21_Waits(g, q) ==
    /\ gameExists(g)
    /\ games[g].state = Playing
    /\ ~games[g].hasPlayedCard[q]

C21_Progress(old, new, q) ==
    \/ new.state # old.state
    \/ new.currentRound # old.currentRound
    \/ new.cards # old.cards
    \/ new.players # old.players
    \/ new.hasPlayedCard[q] # old.hasPlayedCard[q]

\* The step is a call of address a that is not reverted: any function, any
\* game, any input.
C21_CallBy(a) ==
    \/ createGameError(a) = "ok" /\ createGame(a)
    \/ \E h \in GameIds :
          \/ \E proofOk \in BOOLEAN :
                /\ joinGameError(a, h, proofOk) = "ok"
                /\ \E encryptedCardTypes \in DeckInputs :
                      joinGame(a, h, encryptedCardTypes, proofOk)
          \/ \E i \in CardIndexInputs :
                playCardError(a, h, i) = "ok" /\ playCard(a, h, i)

C21_PlayingStep ==
    \A g \in GameIds : \A q \in PlayerIdx :
        (C21_Waits(g, q) /\ C21_Progress(games[g], games'[g], q)) =>
            \A a \in Addresses \ {games[g].players[q]} : ~C21_CallBy(a)

C21_LoneWaiting(g) ==
    /\ gameExists(g)
    /\ games[g].state = Waiting
    /\ games[g].playersJoined = 1

C21_WaitingStep ==
    \A g \in GameIds :
        C21_LoneWaiting(g) =>
            \* the player still occupies the game, which is not Finished
            /\ g < nextGameId'
            /\ games'[g].players[0] = games[g].players[0]
            /\ games'[g].state # Finished
            \* the game changes only by the join of a second, eligible address
            /\ \/ games'[g] = games[g]
               \/ /\ games'[g].state = Playing
                  /\ games'[g].players[1] \in Addresses \ {games[g].players[0]}
                  /\ joinGameError(games'[g].players[1], g, TRUE) = "ok"
                  /\ \A a \in Addresses \ {games'[g].players[1]} : ~C21_CallBy(a)

C21_Step ==
    \/ UNCHANGED vars
    \/ C21_PlayingStep /\ C21_WaitingStep

\* C21: only the awaited player moves a Playing game on, and only a second
\* eligible address moves a Waiting game with one player on.
C21_NoThirdPartyPath ==
    [][C21_Step]_vars

\* Round 1, slot 0 has committed and slot 1 is awaited; a third address, in
\* no game, is there to call.
C21_Witness ==
    \E g \in GameIds, a \in Addresses :
        /\ C21_Waits(g, 1)
        /\ games[g].hasPlayedCard[0]
        /\ games[g].currentRound = 1
        /\ a \notin {games[g].players[0], games[g].players[1]}
        /\ createGameError(a) = "ok"

(***************************************************************************)
(* C22: in every reachable state the holders granted read access to the    *)
(* cardType handle of a card are exactly the contract and the player who   *)
(* submitted the card; the opponent and the addresses outside the game     *)
(* are never granted access, by join, playCard or resolution.  A card slot *)
(* nobody has joined holds the zero handle, readable by nobody.            *)
(***************************************************************************)
C22_Readers(game, p, i) == game.cards[p][i].cardType.acl

\* C22: read access to a card type: the contract and the submitter, no other.
C22_OnlyContractAndOwner ==
    \A g \in GameIds : \A p \in PlayerIdx : \A i \in CardIdx :
        /\ games[g].players[p] # ZeroAddress =>
              C22_Readers(games[g], p, i) = {ThisContract, games[g].players[p]}
        /\ games[g].players[p] = ZeroAddress =>
              C22_Readers(games[g], p, i) = {}
        /\ games[g].players[1 - p] # games[g].players[p] =>
              games[g].players[1 - p] \notin C22_Readers(games[g], p, i)

\* After four resolutions: the opponent reads none of the other side's types.
C22_Witness ==
    \E g \in GameIds :
        /\ games[g].currentRound = 4
        /\ games[g].players[0] \in Addresses
        /\ games[g].players[1] \in Addresses \ {games[g].players[0]}
        /\ \A i \in CardIdx :
              /\ games[g].players[1] \notin C22_Readers(games[g], 0, i)
              /\ games[g].players[0] \notin C22_Readers(games[g], 1, i)
              /\ ThisContract \in C22_Readers(games[g], 0, i)

(***************************************************************************)
(* C23: for all types a, b in {0,1,2}, player1Wins(a, b) is TRUE exactly   *)
(* for (Eagle 0, Snake 2), (Bear 1, Eagle 0) and (Snake 2, Bear 1);        *)
(* player2Wins(a, b) is player1Wins(b, a); the two are never both TRUE,    *)
(* and both are FALSE exactly when a = b.                                  *)
(***************************************************************************)
C23_Types == {0, 1, 2}

C23_Beats == {<<0, 2>>, <<1, 0>>, <<2, 1>>}

C23_Table ==
    \A a, b \in C23_Types :
        /\ player1Wins(a, b) <=> (<<a, b>> \in C23_Beats)
        /\ player2Wins(a, b) <=> player1Wins(b, a)
        /\ ~(player1Wins(a, b) /\ player2Wins(a, b))
        /\ (~player1Wins(a, b) /\ ~player2Wins(a, b)) <=> (a = b)

\* The two expressions on the types a resolution reads (lines 479-480).
C23_OnPlayedCards ==
    \A g \in GameIds :
        games[g].playersJoined = 2 =>
            LET a == games[g].cards[0][games[g].currentPlayedCards[0]].cardType.val
                b == games[g].cards[1][games[g].currentPlayedCards[1]].cardType.val
            IN  /\ a \in C23_Types
                /\ b \in C23_Types
                /\ player1Wins(a, b) <=> (<<a, b>> \in C23_Beats)
                /\ player2Wins(a, b) <=> (<<b, a>> \in C23_Beats)

\* C23: the cyclic advantage Eagle > Snake > Bear > Eagle, on every pair.
C23_CyclicAdvantage ==
    C23_Table /\ C23_OnPlayedCards

\* Round 0 resolved with a Snake of player 0 against a Bear of player 1.
C23_Witness ==
    \E g \in GameIds :
        /\ games[g].currentRound = 1
        /\ LET a == games[g].cards[0][games[g].currentPlayedCards[0]].cardType.val
               b == games[g].cards[1][games[g].currentPlayedCards[1]].cardType.val
           IN  /\ a = 2
               /\ b = 1
               /\ player1Wins(a, b)
               /\ ~player2Wins(a, b)

(***************************************************************************)
(* C28: createGame allocates the ids 0, 1, 2, ... in call order: the id of *)
(* the new game is nextGameId before the call, and nextGameId grows by     *)
(* exactly 1, so no id is allocated twice.  The new game is Waiting with   *)
(* playersJoined 0, currentRound 0 and both slots empty, and no createGame *)
(* alters a game created before.                                           *)
(***************************************************************************)
\* Storage beyond the allocated ids was never written.
C28_UnallocatedUntouched ==
    /\ nextGameId \in 0..MaxGames
    /\ \A g \in GameIds : g >= nextGameId => games[g] = EmptyGame

C28_Created(gameId) ==
    /\ nextGameId' = gameId + 1
    /\ games'[gameId].state = Waiting
    /\ games'[gameId].playersJoined = 0
    /\ games'[gameId].currentRound = 0
    /\ games'[gameId].players[0] = ZeroAddress
    /\ games'[gameId].players[1] = ZeroAddress
    /\ \A h \in GameIds : h # gameId => games'[h] = games[h]
    /\ playerToGame' = playerToGame

C28_CreateStep ==
    \/ UNCHANGED vars
    \/ /\ nextGameId' >= nextGameId
       /\ nextGameId' # nextGameId =>
             /\ C28_Created(nextGameId)
             /\ \E a \in Addresses : createGameError(a) = "ok" /\ createGame(a)
       /\ \A a \in Addresses :
             (createGameError(a) = "ok" /\ createGame(a)) => C28_Created(nextGameId)

C29_NoSuchGame == "Game does not exist"

\* The five functions, with every caller and argument, refuse the id for
\* this reason exactly when it is not below nextGameId.
C29_Refused(g) ==
    /\ \A a \in Addresses, proofOk \in BOOLEAN :
          joinGameError(a, g, proofOk) = C29_NoSuchGame
    /\ \A a \in Addresses, i \in CardIndexInputs :
          playCardError(a, g, i) = C29_NoSuchGame
    /\ getGameInfoError(g) = C29_NoSuchGame
    /\ \A p \in PlayerIndexInputs :
          /\ getPlayerCardsError(g, p) = C29_NoSuchGame
          /\ getAliveCountError(g, p) = C29_NoSuchGame

C29_Passed(g) ==
    /\ \A a \in Addresses, proofOk \in BOOLEAN :
          joinGameError(a, g, proofOk) # C29_NoSuchGame
    /\ \A a \in Addresses, i \in CardIndexInputs :
          playCardError(a, g, i) # C29_NoSuchGame
    /\ getGameInfoError(g) # C29_NoSuchGame
    /\ \A p \in PlayerIndexInputs :
          /\ getPlayerCardsError(g, p) # C29_NoSuchGame
          /\ getAliveCountError(g, p) # C29_NoSuchGame

C29_ExactlyBelowNext ==
    \A g \in GameIds :
        IF g < nextGameId THEN C29_Passed(g) ELSE C29_Refused(g)

\* The two state-changing functions leave the state alone on such an id.
C29_NoEffect ==
    \/ UNCHANGED vars
    \/ \A g \in GameIds :
          g >= nextGameId =>
              /\ \A a \in Addresses, proofOk \in BOOLEAN :
                    \A encryptedCardTypes \in RegistryDecks :
                        ~joinGame(a, g, encryptedCardTypes, proofOk)
              /\ \A a \in Addresses, i \in CardIndexInputs :
                    ~playCard(a, g, i)

\* C29: a game id at or above nextGameId is rejected with "Game does not
\* exist" by joinGame, playCard, getGameInfo, getPlayerCards and
\* getAliveCount without any change of state, and an id passes the check
\* exactly when it is below nextGameId.
C29_UnknownGameRejected ==
    /\ []C29_ExactlyBelowNext
    /\ [][C29_NoEffect]_vars

\* One game exists and is being played, the next id is not allocated: a
\* player of game 0 is refused on id 1 and let through on id 0.
C29_Witness ==
    /\ nextGameId = 1
    /\ games[0].state = Playing
    /\ \E a \in Addresses :
          /\ games[0].players[0] = a
          /\ playCardError(a, 1, 0) = C29_NoSuchGame
          /\ joinGameError(a, 1, TRUE) = C29_NoSuchGame
          /\ playCardError(a, 0, 0) = "ok"
    /\ getAliveCountError(1, 0) = C29_NoSuchGame
    /\ getAliveCountError(0, 0) = "ok"

(***************************************************************************)
(* C24: the three-way result of EncryptedCardGame and the cards it kills.  *)
(***************************************************************************)
\* Card x wins over card y: type advantage, or the same type with strictly
\* higher health.
C24_Wins(x, y) ==
    \/ <<x.cardType.val, y.cardType.val>> \in {<<0, 2>>, <<1, 0>>, <<2, 1>>}
    \/ /\ x.cardType.val = y.cardType.val
       /\ x.health.val > y.health.val

C24_Result(x, y) ==
    IF x.isAlive.val /\ y.isAlive.val /\ C24_Wins(x, y) THEN 1
    ELSE IF x.isAlive.val /\ y.isAlive.val /\ C24_Wins(y, x) THEN 2
    ELSE 0

\* The cards the result kills: the played card of the loser, of both on 0.
C24_Dies(result, p, i, c1, c2) ==
    \/ p = 0 /\ i = c1 /\ result \in {0, 2}
    \/ p = 1 /\ i = c2 /\ result \in {0, 1}

C24_AliveCards(ps, p) == {i \in CardIdx : ps[p].cards[i].isAlive.val}

\* A step that resolves a round, read off the storage before and after it.
C24_ResolveStep ==
    \/ currentRound' = currentRound
    \/ LET c1 == currentPlayedCards'[0].val
           c2 == currentPlayedCards'[1].val
           result == battleResults'[currentRound].val
       IN  /\ currentRound' = currentRound + 1
           /\ c1 \in CardIdx /\ c2 \in CardIdx
           /\ result = C24_Result(players[0].cards[c1], players[1].cards[c2])
           /\ \A p \in PlayerIdx :
                 /\ \A i \in CardIdx :
                       /\ players'[p].cards[i].isAlive.val =
                             (/\ players[p].cards[i].isAlive.val
                              /\ ~C24_Dies(result, p, i, c1, c2))
                       /\ players'[p].cards[i].cardType =
                             players[p].cards[i].cardType
                       /\ players'[p].cards[i].health =
                             players[p].cards[i].health
                 /\ players'[p].aliveCount.val =
                       Cardinality(C24_AliveCards(players', p))

\* C24: resolveBattle yields 1 when both played cards are alive and player
\* 0's card wins, 2 when both are alive and player 1's card wins, 0
\* otherwise; 1 kills only player 1's played card, 2 only player 0's, 0 both,
\* and the alive counts follow.
C24_ThreeWayResult == [][C24_ResolveStep]_ecgVars

\* Round 0 resolved with an alive Eagle against an alive Snake: result 1, and
\* the alive counts are 6 and 5.
C24_Witness ==
    /\ currentRound = 1
    /\ players[0].cards[currentPlayedCards[0].val].cardType.val = 0
    /\ players[1].cards[currentPlayedCards[1].val].cardType.val = 2
    /\ battleResults[0].val = 1
    /\ players[0].aliveCount.val = 6
    /\ players[1].aliveCount.val = 5
    /\ players[0].cards[currentPlayedCards[0].val].isAlive.val
    /\ ~players[1].cards[currentPlayedCards[1].val].isAlive.val

(***************************************************************************)
(* C25: every round of EncryptedCardGame resolves on its second            *)
(* submission, and the result of every resolved round can be read.         *)
(***************************************************************************)
\* Player a is the one still to submit in the current round.
C25_SubmitsSecond(a) ==
    /\ gameState = Playing
    /\ onlyValidPlayer(a)
    /\ ~hasPlayedCard[ECG_playerIndexOf(a)]
    /\ hasPlayedCard[1 - ECG_playerIndexOf(a)]
    /\ currentRound < DeckSize

\* The submission is accepted and resolves the round.
C25_Resolves(a, cardIndex) ==
    /\ ECG_playCardError(a, TRUE) = "ok"
    /\ ECG_playCard(a, cardIndex, TRUE) => currentRound' = currentRound + 1

\* C25: in each of the rounds 0..5 the second submission resolves the battle
\* and raises currentRound by one, and getBattleResult(r) returns the stored
\* result for every r < currentRound.
C25_EveryRoundResolves ==
    /\ [](\A a \in GameCallers :
             C25_SubmitsSecond(a) => ECG_playCardError(a, TRUE) = "ok")
    /\ [](\A r \in CardIdx :
             r < currentRound => getBattleResultError(r) = "ok")
    /\ [][\A a \in GameCallers, cardIndex \in ECG_CardIndexInputs :
             C25_SubmitsSecond(a) => C25_Resolves(a, cardIndex)]_ecgVars

(***************************************************************************)
(* C26: one card per player and round in EncryptedCardGame.                *)
(***************************************************************************)
\* Player a has submitted in the round that is still open.
C26_AlreadySubmitted(a) ==
    /\ gameState = Playing
    /\ onlyValidPlayer(a)
    /\ hasPlayedCard[ECG_playerIndexOf(a)]

\* C26: a further playCard by a player who has submitted in the current
\* round is rejected, and the index stored for that player is not replaced
\* before the round resolves.
C26_OneCardPerRound ==
    /\ [](\A a \in GameCallers :
             C26_AlreadySubmitted(a) =>
                 \A proofOk \in BOOLEAN : ECG_playCardError(a, proofOk) # "ok")
    /\ [][\A a \in GameCallers :
             C26_AlreadySubmitted(a) =>
                 currentPlayedCards'[ECG_playerIndexOf(a)] =
                     currentPlayedCards[ECG_playerIndexOf(a)]]_ecgVars

(***************************************************************************)
(* C27: when EncryptedCardGame is Finished.                                *)
(***************************************************************************)
C27_SomeCountZero ==
    \E p \in PlayerIdx : players[p].aliveCount.val = 0

\* C27: gameState is Finished only when some player's alive count is 0, and
\* no step leads to Finished from a state where both players have alive
\* cards.
C27_FinishedOnlyAtZero ==
    /\ [](gameState = Finished => C27_SomeCountZero)
    /\ [][(gameState # Finished /\ gameState' = Finished) =>
             C27_SomeCountZero]_ecgVars

(***************************************************************************)
(* C30: the views restricted to the owner of the slot.                     *)
(***************************************************************************)
C30_NotAuthorized == "Not authorized"

\* EncryptedCardGame: a caller other than the slot's address is refused.
C30_ExtendedGated ==
    \A a \in GameCallers, slot \in PlayerIdx :
        a # players[slot].playerAddress =>
            /\ ECG_getPlayerCardsError(a, slot) = C30_NotAuthorized
            /\ ECG_getAliveCountError(a, slot) = C30_NotAuthorized

\* First listing of EncryptedCardGameV2: the same on every created game.
C30_FirstListingGated ==
    \A a \in GameCallers, slot \in PlayerIdx, g \in GameIds :
        (g < nextGameId /\ a # games[g].players[slot]) =>
            /\ First_getPlayerCardsError(a, g, slot) = C30_NotAuthorized
            /\ First_getAliveCountError(a, g, slot) = C30_NotAuthorized

\* C30: getPlayerCards(slot) and getAliveCount(slot) are rejected with "Not
\* authorized" for every caller other than the address stored in the slot,
\* in EncryptedCardGame and in the first listing of EncryptedCardGameV2.
C30_ViewsOnlyForSlotOwner == C30_ExtendedGated /\ C30_FirstListingGated

\* Both slots of EncryptedCardGame are taken and a game of the first listing
\* exists: each player is refused on the other's slot, the third address on
\* both, and every caller on the slots of the created game.
C30_Witness ==
    /\ playersJoined = 2
    /\ nextGameId > 0
    /\ \E a \in GameCallers :
          /\ ~onlyValidPlayer(a)
          /\ ECG_getPlayerCardsError(a, 0) = C30_NotAuthorized
          /\ ECG_getAliveCountError(a, 1) = C30_NotAuthorized
          /\ First_getPlayerCardsError(a, 0, 0) = C30_NotAuthorized
    /\ ECG_getAliveCountError(players[0].playerAddress, 1) = C30_NotAuthorized
    /\ ECG_getAliveCountError(players[0].playerAddress, 0) = "ok"
    /\ ECG_getPlayerCardsError(players[1].playerAddress, 0) = C30_NotAuthorized
    /\ ECG_getPlayerCardsError(players[1].playerAddress, 1) = "ok"

(***************************************************************************)
(* C32: the two alive counts of EncryptedCardGameV2 move in lockstep with  *)
(* the round counter.                                                      *)
(***************************************************************************)
C32_CountsFollowRound ==
    \A g \in GameIds :
        games[g].state \in {Playing, Finished} =>
            /\ games[g].currentRound <= 6
            /\ games[g].aliveCount[0] = 6 - games[g].currentRound
            /\ games[g].aliveCount[1] = 6 - games[g].currentRound

\* A battle always starts with both counts positive and the round counter
\* below its maximum, and no submission is reverted by the arithmetic.
C32_NoPanic ==
    \A g \in GameIds :
        /\ games[g].state = Playing =>
              /\ games[g].aliveCount[0] > 0
              /\ games[g].aliveCount[1] > 0
              /\ games[g].currentRound < Uint8Max
        /\ \A a \in Addresses, i \in CardIndexInputs :
              playCardError(a, g, i) # "Panic"

\* C32: in every state of a Playing or Finished game both alive counts equal
\* 6 - currentRound; currentRound never exceeds 6, the decrement in
\* processBattle never underflows and the round counter never overflows.
C32_CountsInLockstep == C32_CountsFollowRound /\ C32_NoPanic

\* Half-way through a game: three rounds resolved, three cards left each,
\* and the fourth round is about to resolve.
C32_Witness ==
    /\ games[0].state = Playing
    /\ games[0].currentRound = 3
    /\ games[0].aliveCount[0] = 3
    /\ games[0].aliveCount[1] = 3
    /\ games[0].hasPlayedCard[0]

(***************************************************************************)
(* C34: Waiting means a free slot, so two checks of joinGame are dead.     *)
(***************************************************************************)
C34_WaitingIffFreeSlot ==
    \A g \in GameIds :
        (games[g].state = Waiting) <=> (games[g].playersJoined < 2)

C34_DeadChecks ==
    \A a \in Addresses, g \in GameIds, proofOk \in BOOLEAN :
        /\ joinGameError(a, g, proofOk) # "Game is full"
        /\ joinGameError(a, g, proofOk) # "Player index out of bounds"
        /\ (g < nextGameId /\ games[g].playersJoined >= 2) =>
               joinGameError(a, g, proofOk) = "Invalid game state"

\* C34: a game is Waiting exactly when playersJoined < 2; no joinGame is
\* rejected by "Game is full" or "Player index out of bounds", a full game
\* being rejected earlier with "Invalid game state".
C34_FullGameNeverWaiting == C34_WaitingIffFreeSlot /\ C34_DeadChecks

\* A full game and a caller outside it: the join stops at the state check.
C34_Witness ==
    /\ games[0].playersJoined = 2
    /\ games[0].state = Playing
    /\ \E a \in Addresses :
          /\ ~onlyGamePlayer(a, 0)
          /\ joinGameError(a, 0, TRUE) = "Invalid game state"

(***************************************************************************)
(* C35: a call on one game leaves the other games alone.                   *)
(***************************************************************************)
C35_OtherGamesKept(g) == \A h \in GameIds : h # g => games'[h] = games[h]

C35_OtherEntriesKept(a) ==
    \A b \in Addresses : b # a => playerToGame'[b] = playerToGame[b]

C35_FrameStep ==
    \/ UNCHANGED vars
    \/ /\ \A a \in Addresses, g \in GameIds :
             (/\ joinGameError(a, g, TRUE) = "ok"
              /\ \E encryptedCardTypes \in RegistryDecks :
                    joinGame(a, g, encryptedCardTypes, TRUE)) =>
                 /\ C35_OtherGamesKept(g)
                 /\ C35_OtherEntriesKept(a)
                 /\ nextGameId' = nextGameId
       /\ \A a \in Addresses, g \in GameIds, i \in CardIndexInputs :
             (playCardError(a, g, i) = "ok" /\ playCard(a, g, i)) =>
                 /\ C35_OtherGamesKept(g)
                 /\ playerToGame' = playerToGame
                 /\ nextGameId' = nextGameId
       /\ \A a \in Addresses :
             (createGameError(a) = "ok" /\ createGame(a)) =>
                 /\ \A h \in GameIds : h < nextGameId => games'[h] = games[h]
                 /\ playerToGame' = playerToGame
       \* every change of the state is one of these accepted calls
       /\ \/ \E a \in Addresses, g \in GameIds :
                /\ joinGameError(a, g, TRUE) = "ok"
                /\ \E encryptedCardTypes \in RegistryDecks :
                      joinGame(a, g, encryptedCardTypes, TRUE)
          \/ \E a \in Addresses, g \in GameIds, i \in CardIndexInputs :
                playCardError(a, g, i) = "ok" /\ playCard(a, g, i)
          \/ \E a \in Addresses : createGameError(a) = "ok" /\ createGame(a)

\* C35: a successful or rejected joinGame or playCard on game g leaves every
\* other game unchanged, createGame leaves every existing game unchanged,
\* and the only state outside g that a call on g writes is the caller's own
\* playerToGame entry.
C35_CrossGameFrame == [][C35_FrameStep]_vars

\* Two games side by side, each with calls of its own behind it: a round of
\* game 0 has resolved and game 1 has a player.
C35_Witness ==
    /\ nextGameId = 2
    /\ games[0].currentRound >= 1
    /\ games[1].playersJoined >= 1
    /\ games[1].players[0] # ZeroAddress

(***************************************************************************)
(* C36: a finished game releases its players, the next join binds them     *)
(* again.                                                                  *)
(***************************************************************************)
\* a has played a game to its end and occupies no unfinished game.
C36_Released(a) ==
    /\ UnfinishedGamesOf(a) = {}
    /\ \E g \in GameIds :
          /\ g < nextGameId
          /\ games[g].state = Finished
          /\ onlyGamePlayer(a, g)

\* The test of createGame (lines 307-310) and of joinGame (lines 354-365)
\* rejects a.
C36_Blocked(a) ==
    /\ playerToGame[a] # 0
    /\ games[playerToGame[a]].state # Finished

C36_Unblocked ==
    \A a \in Addresses :
        C36_Released(a) =>
            /\ createGameError(a) = "ok"
            /\ \A h \in GameIds :
                  (/\ h < nextGameId
                   /\ games[h].state = Waiting
                   /\ games[h].playersJoined < 2) =>
                      joinGameError(a, h, TRUE) = "ok"

\* The join of a released player: afterwards the test rejects the player.
C36_JoinBlocksAgain ==
    \/ UNCHANGED vars
    \/ \A a \in Addresses, h \in GameIds :
          (/\ C36_Released(a)
           /\ joinGameError(a, h, TRUE) = "ok"
           /\ \E encryptedCardTypes \in RegistryDecks :
                 joinGame(a, h, encryptedCardTypes, TRUE)) =>
              C36_Blocked(a)'

\* C36: a player whose game has become Finished can create a game and can
\* join any other Waiting game with a free slot, and after that join is
\* blocked again until the new game finishes.
C36_ReleasedThenBlockedAgain ==
    /\ []C36_Unblocked
    /\ [][C36_JoinBlocksAgain]_vars

(***************************************************************************)
(* C37: the order of the two submissions of a round does not matter.       *)
(***************************************************************************)
\* A round of game g is about to start: nothing is pending.
C37_RoundOpen(g) ==
    /\ g < nextGameId
    /\ games[g].state = Playing
    /\ ~games[g].hasPlayedCard[0]
    /\ ~games[g].hasPlayedCard[1]

\* Player 0 first, then player 1, and the other way round.
C37_ZeroFirst(g, i, j) == playCardEffect(playCardEffect(games[g], 0, i), 1, j)
C37_OneFirst(g, i, j) == playCardEffect(playCardEffect(games[g], 1, j), 0, i)

\* The indices player p of game g may submit now.
C37_Accepted(g, p) ==
    {i \in CardIdx : playCardError(games[g].players[p], g, i) = "ok"}

C37_SameOutcome ==
    \A g \in GameIds :
        C37_RoundOpen(g) =>
            \A i \in C37_Accepted(g, 0), j \in C37_Accepted(g, 1) :
                /\ C37_ZeroFirst(g, i, j) = C37_OneFirst(g, i, j)
                /\ C37_ZeroFirst(g, i, j).currentRound =
                      games[g].currentRound + 1

\* Every change of a Playing game is the effect of one submission; the first
\* submission of a round does not change which indices the other player may
\* submit, and the second one resolves the round.
C37_Step ==
    \/ UNCHANGED vars
    \/ \A g \in GameIds :
          \/ games'[g] = games[g]
          \/ games[g].state # Playing
          \/ \E p \in PlayerIdx :
                /\ ~games[g].hasPlayedCard[p]
                /\ games'[g] =
                      playCardEffect(games[g], p,
                                     games'[g].currentPlayedCards[p])
                /\ IF games[g].hasPlayedCard[1 - p]
                   THEN games'[g].currentRound = games[g].currentRound + 1
                   ELSE \A j \in CardIndexInputs :
                           playCardError(games[g].players[1 - p], g, j)' =
                               playCardError(games[g].players[1 - p], g, j)

\* C37: from a Playing state with no pending submission, player 0 playing i
\* then player 1 playing j, and player 1 playing j then player 0 playing i,
\* lead to the same game state.
C37_OrderIndependent ==
    /\ []C37_SameOutcome
    /\ [][C37_Step]_vars

\* A round is open after two resolved ones, and the players can choose
\* different cards.
C37_Witness ==
    /\ C37_RoundOpen(0)
    /\ games[0].currentRound = 2
    /\ \E i, j \in CardIdx :
          /\ i # j
          /\ playCardError(games[0].players[0], 0, i) = "ok"
          /\ playCardError(games[0].players[1], 0, j) = "ok"

(***************************************************************************)
(* C38: the select chains of EncryptedCardGame are array lookups.          *)
(***************************************************************************)
\* Indices above the deck an euint8 can hold: the next ones and the largest.
C38_AboveDeck == {DeckSize, DeckSize + 1, 128, Uint8Max}

C38_InsideDeck ==
    \A p \in PlayerIdx, k \in CardIdx :
        /\ getCardByIndex(p, k) = players[p].cards[k].cardType.val
        /\ getCardHealthByIndex(p, k) = players[p].cards[k].health.val
        /\ getCardAliveByIndex(p, k) = players[p].cards[k].isAlive.val

C38_OutsideDeck ==
    \A p \in PlayerIdx, k \in C38_AboveDeck :
        /\ getCardByIndex(p, k) = players[p].cards[0].cardType.val
        /\ getCardHealthByIndex(p, k) = players[p].cards[0].health.val
        /\ getCardAliveByIndex(p, k) = players[p].cards[0].isAlive.val

\* C38: getCardByIndex, getCardHealthByIndex and getCardAliveByIndex return
\* the type, health and alive flag of players[p].cards[k] for k in 0..5, and
\* those of card 0 for k > 5.
C38_ChainsAreLookups == C38_InsideDeck /\ C38_OutsideDeck

\* Both decks are stored, the last card of player 0 differs from the first
\* in type, and a card of player 1 has died: the three chains distinguish
\* the slots.
C38_Witness ==
    /\ playersJoined = 2
    /\ currentRound >= 1
    /\ getCardByIndex(0, 5) # getCardByIndex(0, 0)
    /\ \E k \in CardIdx :
          /\ k # 0
          /\ ~getCardAliveByIndex(1, k)
          /\ getCardAliveByIndex(1, 0)

(***************************************************************************)
(* C39: only alive cards take part in a resolution of EncryptedCardGame.   *)
(***************************************************************************)
\* A step that resolves a round reads two alive cards, and so no card dies
\* against a card that was already dead.
C39_ResolveStep ==
    \/ currentRound' = currentRound
    \/ LET c1 == currentPlayedCards'[0].val
           c2 == currentPlayedCards'[1].val
       IN  /\ players[0].cards[c1].isAlive.val
           /\ players[1].cards[c2].isAlive.val

\* C39: a submission naming a dead card or an index above 5 never brings a
\* dead card into the resolution: both cards read by resolveBattle are
\* alive, so no player loses an alive card to a dead one.
C39_OnlyAliveCardsFight == [][C39_ResolveStep]_ecgVars

(***************************************************************************)
(* C40: the creator of a game joins it, in the first listing of            *)
(* EncryptedCardGameV2.                                                    *)
(***************************************************************************)
\* a is recorded as the creator of the fresh game g.
C40_JustCreated(a, g) ==
    /\ g < nextGameId
    /\ playerToGame[a] = g
    /\ games[g].state = Waiting
    /\ games[g].playersJoined = 0

C40_JoinAccepted ==
    \A a \in GameCallers, g \in GameIds :
        C40_JustCreated(a, g) => First_joinGameError(a, g, TRUE) = "ok"

C40_JoinStep ==
    \/ UNCHANGED vars
    \/ \A a \in GameCallers, g \in GameIds :
          (/\ C40_JustCreated(a, g)
           /\ \E encryptedCardTypes \in RegistryDecks :
                 First_joinGame(a, g, encryptedCardTypes, TRUE)) =>
              /\ games'[g].players[0] = a
              /\ games'[g].playersJoined = 1
              /\ games'[g].aliveCount[0] = 6

\* C40: an address that has just created game g can join it with six valid
\* types and becomes players[0] of g, for every g.
C40_CreatorJoinsOwnGame ==
    /\ []C40_JoinAccepted
    /\ [][C40_JoinStep]_vars

(***************************************************************************)
(* C33: if both players of a Playing game keep submitting an alive card    *)
(* whenever they have not yet played in the current round (weak fairness   *)
(* on both players' playCard), the game eventually reaches Finished, and   *)
(* it does so at the sixth resolution: currentRound counts the resolutions *)
(* (line 511), a Playing game has seen fewer than six and a Finished game  *)
(* exactly six.                                                            *)
(***************************************************************************)
C33_IsPlaying == gameExists(FirstGameId) /\ games[FirstGameId].state = Playing

C33_IsFinished == gameExists(FirstGameId) /\ games[FirstGameId].state = Finished

C33_NotEarlier == C33_IsFinished => games[FirstGameId].currentRound = DeckSize

C33_NotLater == C33_IsPlaying => games[FirstGameId].currentRound < DeckSize

\* C33: under fair submission a Playing game finishes, at the sixth resolution.
C33_FinishesAtSixthResolution ==
    /\ [](C33_NotEarlier /\ C33_NotLater)
    /\ C33_IsPlaying ~> C33_IsFinished

\* The game finished by the sixth resolution, every card of both decks dead.
C33_Witness ==
    /\ C33_IsFinished
    /\ games[FirstGameId].currentRound = DeckSize
    /\ \A p \in 0..(NumPlayers - 1), i \in 0..(DeckSize - 1) :
          ~games[FirstGameId].cards[p][i].isAlive

(***************************************************************************)
(* C31: the events of a game come in this order: one GameCreated, then     *)
(* PlayerJoined with slot 0, then PlayerJoined with slot 1 followed at     *)
(* once, in the same call, by one GameStarted, then only CardPlayed, then  *)
(* at most one GameEnded.  No CardPlayed precedes GameStarted and nothing  *)
(* follows GameEnded.  Between calls the log of a game is therefore a      *)
(* prefix of that order which never stops between the second PlayerJoined  *)
(* and GameStarted.                                                        *)
(***************************************************************************)
\* The order with n CardPlayed events, closed by GameEnded or not.
C31_Order(g, n, ended) ==
    <<GameCreated(g), PlayerJoined(g, 0), PlayerJoined(g, 1), GameStarted(g)>>
        \o [k \in 1..n |-> CardPlayed(g)]
        \o (IF ended THEN <<GameEnded(g)>> ELSE <<>>)

C31_InOrder(g) ==
    \/ eventLog[g] \in {<<>>, <<GameCreated(g)>>,
                        <<GameCreated(g), PlayerJoined(g, 0)>>}
    \/ \E n \in 0..Len(eventLog[g]), ended \in BOOLEAN :
          eventLog[g] = C31_Order(g, n, ended)

\* C31: the log of every game follows the order.
C31_EventOrder == \A g \in GameIds : C31_InOrder(g)

\* A game whose log is complete, from GameCreated to GameEnded, next to a
\* game whose log has begun.
C31_Witness ==
    \E g \in GameIds, h \in GameIds :
        /\ g # h
        /\ eventLog[h] # <<>>
        /\ eventLog[g] = C31_Order(g, 2 * DeckSize, TRUE)
====
